---- MODULE Spec2Model ----
(***************************************************************************)
(* Model of the goal-driven action engine of the OmniParser autonomous     *)
(* app: class AutonomousAgent (autonomous-agent.js, here                   *)
(* src/unnamed/part_001) together with the shape of the perception result  *)
(* it consumes (LocalOmniParser, src/unnamed/part_000).                    *)
(*                                                                         *)
(* Conventions                                                             *)
(*  - a JavaScript string the code inspects (labels, keywords, icon names) *)
(*    is a sequence of one-character strings, so that toLowerCase() and    *)
(*    includes() are computed; strings the code only copies (description,  *)
(*    context, error texts) are TLA+ strings;                              *)
(*  - a confidence is an integer number of hundredths (0.9 is 90);         *)
(*  - `goals' is the array this.goals; it doubles as the heap of goal      *)
(*    objects, and a reference to a goal object is its index in it         *)
(*    (0 is null);                                                         *)
(*  - an async method is a frame calls[r] whose pc names the await it is   *)
(*    suspended at; one action runs the code between two awaits;           *)
(*  - timestamps and screenshot file names are not modelled.               *)
(***************************************************************************)
EXTENDS Integers, Sequences, FiniteSets, TLC

(***************************************************************************)
(* Bounds of the model.                                                    *)
(***************************************************************************)
MaxHistory == 2
MaxGoals == 2
MaxElems == 2
MaxAgents == 3

(***************************************************************************)
(* JavaScript values.                                                      *)
(***************************************************************************)
Undefined == "undefined"

Upper == <<"A","B","C","D","E","F","G","H","I","J","K","L","M",
           "N","O","P","Q","R","S","T","U","V","W","X","Y","Z">>

Lower == <<"a","b","c","d","e","f","g","h","i","j","k","l","m",
           "n","o","p","q","r","s","t","u","v","w","x","y","z">>

Chars == { Upper[i] : i \in 1..26 } \cup { Lower[i] : i \in 1..26 } \cup {" ", "'", ";", ":"}

LowerChar ==
  [c \in Chars |-> IF \E i \in 1..26 : Upper[i] = c
                   THEN Lower[CHOOSE i \in 1..26 : Upper[i] = c]
                   ELSE c]

\* String.prototype.toLowerCase
ToLower(s) == [i \in 1..Len(s) |-> LowerChar[s[i]]]

\* String.prototype.includes
Includes(s, sub) ==
  \E i \in 0..(Len(s) - Len(sub)) : \A j \in 1..Len(sub) : s[i + j] = sub[j]

\* includes(undefined) searches for the text "undefined"
UndefinedText == <<"u","n","d","e","f","i","n","e","d">>

(***************************************************************************)
(* Labels, keywords and icon names used as inputs.                         *)
(***************************************************************************)
SubmitButtonLabel == <<"S","u","b","m","i","t"," ","B","u","t","t","o","n">>
NextLinkLabel == <<"N","e","x","t">>
LogoLabel == <<"L","o","g","o">>

KwSubmit == <<"s","u","b","m","i","t">>
KwButton == <<"B","u","t","t","o","n">>
KwIcon == <<"i","c","o","n">>

(***************************************************************************)
(* Detected elements: the button of the fallback set of                    *)
(* LocalOmniParser.getMockData, an interactable element that is neither    *)
(* button nor icon, and an icon that is not interactable.                  *)
(***************************************************************************)
Element(t, b, c, l, i) ==
  [type |-> t, bbox |-> b, confidence |-> c, label |-> l, interactable |-> i]

SubmitButton == Element("button", <<100, 200, 250, 250>>, 95, SubmitButtonLabel, TRUE)
NextLink == Element("link", <<10, 10, 30, 20>>, 95, NextLinkLabel, TRUE)
LogoIcon == Element("icon", <<0, 0, 20, 20>>, 95, LogoLabel, FALSE)

Pool == <<SubmitButton, NextLink, LogoIcon>>

\* the detections of one screenshot: up to MaxElems distinct pool elements
Detections ==
  UNION { { [i \in 1..n |-> Pool[f[i]]] :
              f \in { g \in [1..n -> 1..Len(Pool)] :
                        \A a, b \in 1..n : a # b => g[a] # g[b] } } :
          n \in 0..MaxElems }

IsIcon(e) == e.type = "icon"
IsInteractable(e) == e.interactable

\* the result of parseScreen: the detections sorted into the lists the
\* agent reads
Analysis(dets) ==
  [elements |-> [icons |-> SelectSeq(dets, IsIcon),
                 interactable |-> SelectSeq(dets, IsInteractable)]]

Analyses == { Analysis(d) : d \in Detections }

(***************************************************************************)
(* The planner.  `g' is this.currentGoal as read by the planner: <<>> for  *)
(* null, <<goal>> for a goal object.                                       *)
(***************************************************************************)
\* variant: 'next' is looked for before 'submit'
determineActionType_NextFirst(element) ==
  IF element.type = "button"
  THEN IF Includes(ToLower(element.label), <<"n","e","x","t">>) THEN "navigate"
       ELSE IF Includes(ToLower(element.label), <<"s","u","b","m","i","t">>) THEN "submit"
       ELSE "click"
  ELSE IF element.type = "icon"
  THEN IF Includes(ToLower(element.label), <<"m","e","n","u">>) THEN "expand"
       ELSE IF Includes(ToLower(element.label), <<"s","e","t","t","i","n","g","s">>)
            THEN "configure"
       ELSE "click"
  ELSE "interact"

determineActionType(element) ==
  IF element.type = "button"
  THEN IF Includes(ToLower(element.label), <<"s","u","b","m","i","t">>) THEN "submit"
       ELSE IF Includes(ToLower(element.label), <<"n","e","x","t">>) THEN "navigate"
       ELSE "click"
  ELSE IF element.type = "icon"
  THEN IF Includes(ToLower(element.label), <<"m","e","n","u">>) THEN "expand"
       ELSE IF Includes(ToLower(element.label), <<"s","e","t","t","i","n","g","s">>)
            THEN "configure"
       ELSE "click"
  ELSE "interact"

\* the sum of the +30 bonuses of goalKeywords.forEach
RECURSIVE KeywordBonus(_, _)
KeywordBonus(labelLower, goalKeywords) ==
  IF goalKeywords = <<>> THEN 0
  ELSE (IF Includes(labelLower, ToLower(Head(goalKeywords))) THEN 30 ELSE 0)
       + KeywordBonus(labelLower, Tail(goalKeywords))

Min(a, b) == IF a < b THEN a ELSE b

\* variant: a goal with a context of its own raises every priority
calculatePriority_ContextBonus(element, g) ==
  Min(50 + (IF element.confidence > 90 THEN 20 ELSE 0)
         + (IF g # <<>> THEN KeywordBonus(ToLower(element.label), g[1].keywords) ELSE 0)
         + (IF g # <<>> /\ g[1].context # "general" THEN 10 ELSE 0)
         + (IF element.type = "button" THEN 10 ELSE 0)
         + (IF element.interactable THEN 10 ELSE 0),
      100)

\* variant: the confidence bonus is given from 0.9 on
calculatePriority_FromNinety(element, g) ==
  Min(50 + (IF element.confidence >= 90 THEN 20 ELSE 0)
         + (IF g # <<>> THEN KeywordBonus(ToLower(element.label), g[1].keywords) ELSE 0)
         + (IF element.type = "button" THEN 10 ELSE 0)
         + (IF element.interactable THEN 10 ELSE 0),
      100)

\* variant: the sum of the bonuses is not clamped
calculatePriority_NoClamp(element, g) ==
  50 + (IF element.confidence > 90 THEN 20 ELSE 0)
     + (IF g # <<>> THEN KeywordBonus(ToLower(element.label), g[1].keywords) ELSE 0)
     + (IF element.type = "button" THEN 10 ELSE 0)
     + (IF element.interactable THEN 10 ELSE 0)

\* variant: the bonuses are added to a base of 0
calculatePriority_FromZero(element, g) ==
  Min((IF element.confidence > 90 THEN 20 ELSE 0)
      + (IF g # <<>> THEN KeywordBonus(ToLower(element.label), g[1].keywords) ELSE 0)
      + (IF element.type = "button" THEN 10 ELSE 0)
      + (IF element.interactable THEN 10 ELSE 0),
      100)

calculatePriority(element, g) ==
  LET base == 50
      conf == IF element.confidence > 90 THEN 20 ELSE 0
      kw == IF g # <<>> THEN KeywordBonus(ToLower(element.label), g[1].keywords) ELSE 0
      btn == IF element.type = "button" THEN 10 ELSE 0
      inter == IF element.interactable THEN 10 ELSE 0
  IN Min(base + conf + kw + btn + inter, 100)

\* Array.prototype.join('; ') on the pieces of text
RECURSIVE Join(_)
Join(reasons) ==
  IF reasons = <<>> THEN <<>>
  ELSE IF Len(reasons) = 1 THEN reasons[1]
  ELSE reasons[1] \o <<"; ">> \o Join(Tail(reasons))

\* a text is the sequence of its pieces; the goal is matched against
\* this.currentGoal.keyword, a field no goal object has
generateReasoning(element, g) ==
  LET r1 == IF element.confidence > 90 THEN << <<"High confidence detection">> >> ELSE <<>>
      r2 == IF element.interactable THEN << <<"Element is interactable">> >> ELSE <<>>
      r3 == IF g # <<>> /\ Includes(ToLower(element.label), UndefinedText)
            THEN << <<"Matches goal: ", g[1].description>> >> ELSE <<>>
      joined == Join(r1 \o r2 \o r3)
  IN IF joined = <<>> THEN <<"Standard interaction">> ELSE joined

PlannedAction(element, g) ==
  [type |-> determineActionType(element),
   target |-> element,
   priority |-> calculatePriority(element, g),
   reasoning |-> generateReasoning(element, g)]

\* variant: an unstable sort, an action goes in front of its equals
RECURSIVE InsertByPriority_BeforeEquals(_, _)
InsertByPriority_BeforeEquals(a, sorted) ==
  IF sorted = <<>> THEN <<a>>
  ELSE IF Head(sorted).priority > a.priority
       THEN <<Head(sorted)>> \o InsertByPriority_BeforeEquals(a, Tail(sorted))
       ELSE <<a>> \o sorted

\* Array.prototype.sort((a, b) => b.priority - a.priority): stable,
\* descending by priority
RECURSIVE InsertByPriority(_, _)
InsertByPriority(a, sorted) ==
  IF sorted = <<>> THEN <<a>>
  ELSE IF Head(sorted).priority >= a.priority
       THEN <<Head(sorted)>> \o InsertByPriority(a, Tail(sorted))
       ELSE <<a>> \o sorted

RECURSIVE SortByPriority(_)
SortByPriority(actions) ==
  IF actions = <<>> THEN <<>>
  ELSE InsertByPriority(actions[Len(actions)],
                        SortByPriority(SubSeq(actions, 1, Len(actions) - 1)))

\* variant: plans over the icons as well as the interactable elements
generateActionPlan_AllDetected(analysis, g) ==
  SortByPriority([k \in 1..Len(analysis.elements.interactable \o analysis.elements.icons) |->
                    PlannedAction((analysis.elements.interactable \o analysis.elements.icons)[k], g)])

generateActionPlan(analysis, g) ==
  SortByPriority([k \in 1..Len(analysis.elements.interactable) |->
                    PlannedAction(analysis.elements.interactable[k], g)])

(***************************************************************************)
(* Inputs of the host's calls.  An optional argument is <<>> when omitted  *)
(* (undefined) and <<v>> when given.                                       *)
(***************************************************************************)
\* the requests of the host whose method calls may be in progress
Reqs == {1, 2}

DefaultMaxSteps == 10
DefaultMaxActions == 5
PriorityFloor == 30

GoalArg(d, k, c, m) == [description |-> d, keywords |-> k, context |-> c, maxSteps |-> m]

GoalArgs ==
  { GoalArg(<<"Find and click the submit button">>, << <<KwSubmit, KwButton>> >>, <<"form">>, <<2>>),
    GoalArg(<<"Open the menu">>, <<>>, <<>>, <<1>>) }

ActuationErrors == {"Node is detached from document"}
CaptureError == "Protocol error (Page.captureScreenshot)"

\* a || b for each type of a
OrArray(opt, default) == IF opt = <<>> THEN default ELSE opt[1]
OrString(opt, default) == IF opt = <<>> \/ opt = <<"">> THEN default ELSE opt[1]
OrNumber(opt, default) == IF opt = <<>> \/ opt = <<0>> THEN default ELSE opt[1]

(***************************************************************************)
(* State.                                                                  *)
(***************************************************************************)
VARIABLES
  actionHistory,   \* this.actionHistory
  goals,           \* this.goals, the goal objects in creation order
  currentGoal,     \* this.currentGoal: index in goals, 0 for null
  calls,           \* the frame of each request's async method call
  dispatched,      \* number of executeAction calls made so far
  goalDispatched,  \* executeAction calls made by executeGoal since the last setGoal
  autonomousAgent, \* the host's variable autonomousAgent: index in agents, 0 for null
  agents,          \* the AutonomousAgent objects the host created, in creation order
  handlers         \* the frame of each start, stop or shutdown handler of the host

agentVars == <<actionHistory, goals, currentGoal, calls, dispatched, goalDispatched>>
hostVars == <<autonomousAgent, agents, handlers>>

vars == <<actionHistory, goals, currentGoal, calls, dispatched, goalDispatched,
          autonomousAgent, agents, handlers>>

\* a frame: the locals of the running method (of the analysis it holds,
\* whether its list of interactable elements is empty is kept, as noActions),
\* the argument of the call where a property refers to it (arg),
\* the await it is suspended at (pc), its settled value (ret), what held
\* when it was called (hist0, goal0, step0), the number of executeAction
\* calls (n) and of snapshots (shots) it has made, and the calls on
\* this.page.mouse of the executeAction in progress or last made (mouse)
IdleFrame ==
  [op |-> "none", pc |-> "idle", results |-> <<>>, action |-> <<>>,
   i |-> 0, maxActions |-> 0, exploration |-> <<>>, iconName |-> <<>>,
   noActions |-> FALSE, arg |-> <<>>, ret |-> <<>>, mouse |-> <<>>,
   n |-> 0, shots |-> 0, hist0 |-> 0, goal0 |-> 0, step0 |-> 0]

\* the requests of the host that start or stop an agent
HostReqs == {1, 2}

\* the frame of a handler: the await it is suspended at (pc), the agent
\* object whose method it awaits (agent), whether that cleanup() called
\* browser.close() (closing) and the status of the response
IdleHandler == [op |-> "none", pc |-> "idle", agent |-> 0, closing |-> FALSE, status |-> 0]

\* this.currentGoal as the planner reads it
GoalOpt(gs, cg) == IF cg = 0 THEN <<>> ELSE <<gs[cg]>>

Quiet == \A q \in Reqs : calls[q].pc = "idle"

Init ==
  /\ actionHistory = <<>>
  /\ goals = <<>>
  /\ currentGoal = 0
  /\ calls = [r \in Reqs |-> IdleFrame]
  /\ dispatched = 0
  /\ goalDispatched = 0
  /\ autonomousAgent = 0
  /\ agents = <<>>
  /\ handlers = [h \in HostReqs |-> IdleHandler]

(***************************************************************************)
(* setGoal: no await, runs to completion at the call.                      *)
(***************************************************************************)
NewGoal(goal) ==
  [description |-> IF goal.description = <<>> THEN Undefined ELSE goal.description[1],
   keywords |-> OrArray(goal.keywords, <<>>),
   context |-> OrString(goal.context, "general"),
   maxSteps |-> OrNumber(goal.maxSteps, DefaultMaxSteps),
   currentStep |-> 0]

\* variant: a new goal starts a new history
SetGoal_ClearsHistory(goal) ==
  /\ Len(goals) < MaxGoals
  /\ goals' = Append(goals, NewGoal(goal))
  /\ currentGoal' = Len(goals) + 1
  /\ goalDispatched' = 0
  /\ actionHistory' = <<>>
  /\ UNCHANGED <<calls, dispatched>>

\* variant: the new goal resumes at the step the active goal had reached
SetGoal_KeepsProgress(goal) ==
  /\ Len(goals) < MaxGoals
  /\ goals' = Append(goals,
                     [NewGoal(goal) EXCEPT !.currentStep =
                        IF currentGoal = 0 THEN 0 ELSE goals[currentGoal].currentStep])
  /\ currentGoal' = Len(goals) + 1
  /\ goalDispatched' = 0
  /\ UNCHANGED <<actionHistory, calls, dispatched>>

SetGoal(goal) ==
  /\ Len(goals) < MaxGoals
  /\ goals' = Append(goals, NewGoal(goal))
  /\ currentGoal' = Len(goals) + 1
  /\ goalDispatched' = 0
  /\ UNCHANGED <<actionHistory, calls, dispatched>>

(***************************************************************************)
(* executeAction.  Dispatch is the call up to its first await; the frame   *)
(* `f' is the caller's frame at the call.                                  *)
(***************************************************************************)
ClickTypes == {"click", "submit", "navigate", "expand", "configure"}

\* n / 2 for an integer n: the whole part, and whether .5 follows it
Half(n) == [whole |-> n \div 2, half |-> n % 2 = 1]

\* centerX, centerY
Center(bbox) == [x |-> Half(bbox[1] + bbox[3]), y |-> Half(bbox[2] + bbox[4])]

\* variant: hover clicks as well
MouseCalls_HoverClicks(action) ==
  IF action.type \in ClickTypes \/ action.type = "hover"
  THEN <<[method |-> "click", at |-> Center(action.target.bbox)]>>
  ELSE <<>>

\* the switch: the calls on this.page.mouse that executeAction issues
MouseCalls(action) ==
  IF action.type \in ClickTypes
  THEN <<[method |-> "click", at |-> Center(action.target.bbox)]>>
  ELSE IF action.type = "hover"
  THEN <<[method |-> "move", at |-> Center(action.target.bbox)]>>
  ELSE <<>>

SuccessOutcome(action) == [action |-> action, success |-> TRUE]
FailureOutcome(action, err) == [action |-> action, success |-> FALSE, error |-> err]

\* variant: an unknown action type is logged and not recorded
Dispatch_UnknownNotRecorded(r, f, action) ==
  /\ dispatched < MaxHistory
  /\ dispatched' = dispatched + 1
  /\ goalDispatched' = IF f.op = "executeGoal" THEN goalDispatched + 1 ELSE goalDispatched
  /\ UNCHANGED actionHistory
  /\ calls' = [calls EXCEPT ![r] =
                 [f EXCEPT !.pc = IF action.type \in ClickTypes \/ action.type = "hover"
                                  THEN "actuate" ELSE "settle",
                           !.action = <<action>>, !.mouse = MouseCalls(action), !.n = @ + 1]]

Dispatch(r, f, action) ==
  /\ dispatched < MaxHistory
  /\ dispatched' = dispatched + 1
  /\ goalDispatched' = IF f.op = "executeGoal" THEN goalDispatched + 1 ELSE goalDispatched
  /\ IF action.type \in ClickTypes \/ action.type = "hover"
     THEN \* await this.page.mouse.click / move
          /\ calls' = [calls EXCEPT ![r] =
                         [f EXCEPT !.pc = "actuate", !.action = <<action>>, !.mouse = MouseCalls(action), !.n = @ + 1]]
          /\ UNCHANGED actionHistory
     ELSE \* unknown type: logged, recorded as a success, then the settle delay
          /\ actionHistory' = Append(actionHistory, SuccessOutcome(action))
          /\ calls' = [calls EXCEPT ![r] =
                         [f EXCEPT !.pc = "settle", !.action = <<action>>, !.mouse = MouseCalls(action), !.n = @ + 1]]

(***************************************************************************)
(* executeGoal.                                                            *)
(***************************************************************************)
AllSucceeded(results) == \A k \in 1..Len(results) : results[k].success

\* variant: some() in place of every()
GoalResult_Some(f, cg) ==
  [goal |-> cg, steps |-> f.results,
   success |-> \E k \in 1..Len(f.results) : f.results[k].success]

GoalResult(f, cg) == [goal |-> cg, steps |-> f.results, success |-> AllSucceeded(f.results)]

GoalReturn(f, cg) == [f EXCEPT !.pc = "returned", !.action = <<>>, !.mouse = <<>>, !.ret = GoalResult(f, cg)]

\* variant: <= in place of <
GoalLoopHead_Inclusive(f, gs, cg) ==
  IF gs[cg].currentStep <= gs[cg].maxSteps
  THEN [f EXCEPT !.pc = "analyze", !.action = <<>>, !.mouse = <<>>]
  ELSE [f EXCEPT !.pc = "returned", !.action = <<>>, !.mouse = <<>>,
                 !.ret = [goal |-> cg, steps |-> f.results,
                          success |-> \A k \in 1..Len(f.results) : f.results[k].success]]

\* the while condition, evaluated on the goal that is current at that time
GoalLoopHead(f, gs, cg) ==
  IF gs[cg].currentStep < gs[cg].maxSteps
  THEN [f EXCEPT !.pc = "analyze", !.action = <<>>, !.mouse = <<>>]
  ELSE GoalReturn(f, cg)

CallFrame(name) ==
  [IdleFrame EXCEPT !.op = name,
                    !.hist0 = Len(actionHistory),
                    !.goal0 = currentGoal,
                    !.step0 = IF currentGoal = 0 THEN 0 ELSE goals[currentGoal].currentStep]

\* variant: no goal is not an error, the run is empty
ExecuteGoal_NoThrow(r) ==
  /\ calls[r].pc = "idle"
  /\ calls' = [calls EXCEPT ![r] =
                 IF currentGoal = 0
                 THEN GoalReturn(CallFrame("executeGoal"), currentGoal)
                 ELSE GoalLoopHead(CallFrame("executeGoal"), goals, currentGoal)]
  /\ UNCHANGED <<actionHistory, goals, currentGoal, dispatched, goalDispatched>>

\* variant: every run starts its goal's step counter afresh
ExecuteGoal_ResetsStep(r) ==
  /\ calls[r].pc = "idle"
  /\ goals' = IF currentGoal = 0 THEN goals
              ELSE [goals EXCEPT ![currentGoal].currentStep = 0]
  /\ calls' = [calls EXCEPT ![r] =
                 IF currentGoal = 0
                 THEN [CallFrame("executeGoal") EXCEPT !.pc = "threw",
                                                       !.ret = [error |-> "No goal set"]]
                 ELSE GoalLoopHead(CallFrame("executeGoal"), goals', currentGoal)]
  /\ UNCHANGED <<actionHistory, currentGoal, dispatched, goalDispatched>>

ExecuteGoal(r) ==
  /\ calls[r].pc = "idle"
  /\ calls' = [calls EXCEPT ![r] =
                 IF currentGoal = 0
                 THEN [CallFrame("executeGoal") EXCEPT !.pc = "threw",
                                                       !.ret = [error |-> "No goal set"]]
                 ELSE GoalLoopHead(CallFrame("executeGoal"), goals, currentGoal)]
  /\ UNCHANGED <<actionHistory, goals, currentGoal, dispatched, goalDispatched>>

\* variant: the top candidate is dispatched whatever its priority
GoalSelect_NoFloor(r, f, suggestedActions) ==
  IF suggestedActions = <<>>
  THEN /\ calls' = [calls EXCEPT ![r] = GoalReturn(f, currentGoal)]
       /\ UNCHANGED <<actionHistory, dispatched, goalDispatched>>
  ELSE Dispatch(r, f, suggestedActions[1])

\* the loop body from the plan to the call of executeAction: the two breaks,
\* then the dispatch of the top candidate
GoalSelect(r, f, suggestedActions) ==
  IF suggestedActions = <<>>
  THEN /\ calls' = [calls EXCEPT ![r] = GoalReturn(f, currentGoal)]
       /\ UNCHANGED <<actionHistory, dispatched, goalDispatched>>
  ELSE IF suggestedActions[1].priority < PriorityFloor
  THEN /\ calls' = [calls EXCEPT ![r] = GoalReturn(f, currentGoal)]
       /\ UNCHANGED <<actionHistory, dispatched, goalDispatched>>
  ELSE Dispatch(r, f, suggestedActions[1])

\* analyzeCurrentPage resolved with analysis `an'
GoalAnalyzed(r, an) ==
  /\ calls[r].op = "executeGoal"
  /\ calls[r].pc = "analyze"
  /\ GoalSelect(r,
                [calls[r] EXCEPT !.shots = @ + 1,
                                 !.noActions = (an.elements.interactable = <<>>)],
                generateActionPlan(an, GoalOpt(goals, currentGoal)))
  /\ UNCHANGED <<goals, currentGoal>>

\* analyzeCurrentPage replaced by a stub that resolves with the ranked list
\* `suggestedActions'
GoalAnalyzedStub(r, suggestedActions) ==
  /\ calls[r].op = "executeGoal"
  /\ calls[r].pc = "analyze"
  /\ GoalSelect(r,
                [calls[r] EXCEPT !.shots = @ + 1,
                                 !.noActions = (suggestedActions = <<>>)],
                suggestedActions)
  /\ UNCHANGED <<goals, currentGoal>>

(***************************************************************************)
(* autonomousExplore.                                                      *)
(***************************************************************************)
ExploreArgs == { [maxActions |-> m] : m \in {<<>>, <<0>>, <<1>>, <<2>>} }

\* variant: <= in place of <
ExploreLoopHead_Inclusive(f) ==
  IF f.i <= f.maxActions
  THEN [f EXCEPT !.pc = "analyze", !.action = <<>>, !.mouse = <<>>]
  ELSE [f EXCEPT !.pc = "returned", !.action = <<>>, !.mouse = <<>>, !.ret = f.exploration]

ExploreLoopHead(f) ==
  IF f.i < f.maxActions
  THEN [f EXCEPT !.pc = "analyze", !.action = <<>>, !.mouse = <<>>]
  ELSE [f EXCEPT !.pc = "returned", !.action = <<>>, !.mouse = <<>>, !.ret = f.exploration]

AutonomousExplore(r, options) ==
  /\ calls[r].pc = "idle"
  /\ calls' = [calls EXCEPT ![r] =
                 ExploreLoopHead([CallFrame("autonomousExplore") EXCEPT
                    !.arg = <<options>>,
                    !.maxActions = OrNumber(options.maxActions, DefaultMaxActions)])]
  /\ UNCHANGED <<actionHistory, goals, currentGoal, dispatched, goalDispatched>>

\* variant: the choice is among the first four candidates
ExploreAnalyzed_TopFour(r, an) ==
  /\ calls[r].op = "autonomousExplore"
  /\ calls[r].pc = "analyze"
  /\ LET f == [calls[r] EXCEPT
                  !.shots = @ + 1,
                  !.noActions = (an.elements.interactable = <<>>),
                  !.exploration = Append(@, [step |-> calls[r].i + 1])]
         suggestedActions == generateActionPlan(an, GoalOpt(goals, currentGoal))
     IN IF suggestedActions = <<>>
        THEN /\ calls' = [calls EXCEPT ![r] =
                            [f EXCEPT !.pc = "returned", !.ret = f.exploration]]
             /\ UNCHANGED <<actionHistory, dispatched, goalDispatched>>
        ELSE \E k \in 0..(Min(4, Len(suggestedActions)) - 1) :
               Dispatch(r, f, suggestedActions[k + 1])
  /\ UNCHANGED <<goals, currentGoal>>

\* analyzeCurrentPage resolved with `an'; Math.random() selects an index k
\* below min(3, length); of an entry of the exploration log the step number
\* is kept
ExploreAnalyzed(r, an) ==
  /\ calls[r].op = "autonomousExplore"
  /\ calls[r].pc = "analyze"
  /\ LET f == [calls[r] EXCEPT
                  !.shots = @ + 1,
                  !.noActions = (an.elements.interactable = <<>>),
                  !.exploration = Append(@, [step |-> calls[r].i + 1])]
         suggestedActions == generateActionPlan(an, GoalOpt(goals, currentGoal))
     IN IF suggestedActions = <<>>
        THEN /\ calls' = [calls EXCEPT ![r] =
                            [f EXCEPT !.pc = "returned", !.ret = f.exploration]]
             /\ UNCHANGED <<actionHistory, dispatched, goalDispatched>>
        ELSE \E k \in 0..(Min(3, Len(suggestedActions)) - 1) :
               Dispatch(r, f, suggestedActions[k + 1])
  /\ UNCHANGED <<goals, currentGoal>>

\* the waitTime delay elapsed
WaitDone(r) ==
  /\ calls[r].op = "autonomousExplore"
  /\ calls[r].pc = "wait"
  /\ calls' = [calls EXCEPT ![r] = ExploreLoopHead([calls[r] EXCEPT !.i = @ + 1])]
  /\ UNCHANGED <<actionHistory, goals, currentGoal, dispatched, goalDispatched>>

(***************************************************************************)
(* identifyAndClickIcon and getActionHistory.                              *)
(***************************************************************************)
IconNames == { <<"L","O","G","O">> }

IdentifyAndClickIcon(r, iconName) ==
  /\ calls[r].pc = "idle"
  /\ calls' = [calls EXCEPT ![r] =
                 [CallFrame("identifyAndClickIcon") EXCEPT !.pc = "analyze",
                                                           !.iconName = iconName]]
  /\ UNCHANGED <<actionHistory, goals, currentGoal, dispatched, goalDispatched>>

IconMatches(icon, iconName) == Includes(ToLower(icon.label), ToLower(iconName))

\* variant: the last match in place of the first
FindIcon_Last(icons, iconName) ==
  IF \E k \in 1..Len(icons) : IconMatches(icons[k], iconName)
  THEN CHOOSE k \in 1..Len(icons) :
         /\ IconMatches(icons[k], iconName)
         /\ \A j \in (k + 1)..Len(icons) : ~IconMatches(icons[j], iconName)
  ELSE 0

\* Array.prototype.find: the index of the first match, 0 when there is none
FindIcon(icons, iconName) ==
  IF \E k \in 1..Len(icons) : IconMatches(icons[k], iconName)
  THEN CHOOSE k \in 1..Len(icons) :
         /\ IconMatches(icons[k], iconName)
         /\ \A j \in 1..(k - 1) : ~IconMatches(icons[j], iconName)
  ELSE 0

ClickIconAnalyzed(r, an) ==
  /\ calls[r].op = "identifyAndClickIcon"
  /\ calls[r].pc = "analyze"
  /\ LET f == [calls[r] EXCEPT !.shots = @ + 1, !.noActions = (an.elements.interactable = <<>>)]
         m == FindIcon(an.elements.icons, f.iconName)
     IN IF m = 0
        THEN /\ calls' = [calls EXCEPT ![r] =
                            [f EXCEPT !.pc = "returned",
                                      !.ret = [success |-> FALSE,
                                               message |-> <<"Icon '", f.iconName, "' not found">>]]]
             /\ UNCHANGED <<actionHistory, dispatched, goalDispatched>>
        ELSE Dispatch(r, f, [type |-> "click", target |-> an.elements.icons[m]])
  /\ UNCHANGED <<goals, currentGoal>>

GetActionHistory(r) ==
  /\ calls[r].pc = "idle"
  /\ calls' = [calls EXCEPT ![r] =
                 [CallFrame("getActionHistory") EXCEPT !.pc = "returned",
                                                       !.ret = actionHistory]]
  /\ UNCHANGED <<actionHistory, goals, currentGoal, dispatched, goalDispatched>>

(***************************************************************************)
(* Resumptions shared by the three drivers.                                *)
(***************************************************************************)
\* captureScreenshot raised inside analyzeCurrentPage: nothing catches it
AnalyzeThrows(r) ==
  /\ calls[r].pc = "analyze"
  /\ calls' = [calls EXCEPT ![r] =
                 [calls[r] EXCEPT !.pc = "threw", !.shots = @ + 1,
                                  !.ret = [error |-> CaptureError]]]
  /\ UNCHANGED <<actionHistory, goals, currentGoal, dispatched, goalDispatched>>

\* variant: a failed action does not end the run of executeGoal
AfterExecuteAction_NoBreak(r, f, result) ==
  IF f.op = "executeGoal"
  THEN LET f2 == [f EXCEPT !.results = Append(@, result)]
       IN IF ~result.success
          THEN /\ calls' = [calls EXCEPT ![r] = GoalLoopHead(f2, goals, currentGoal)]
               /\ UNCHANGED goals
          ELSE /\ goals' = [goals EXCEPT ![currentGoal].currentStep = @ + 1]
               /\ calls' = [calls EXCEPT ![r] = GoalLoopHead(f2, goals', currentGoal)]
  ELSE IF f.op = "autonomousExplore"
  THEN /\ calls' = [calls EXCEPT ![r] = [f EXCEPT !.pc = "wait"]]
       /\ UNCHANGED goals
  ELSE /\ calls' = [calls EXCEPT ![r] = [f EXCEPT !.pc = "returned", !.ret = result]]
       /\ UNCHANGED goals

\* variant: the step counter is advanced before the outcome is looked at
AfterExecuteAction_CountsFailure(r, f, result) ==
  IF f.op = "executeGoal"
  THEN LET f2 == [f EXCEPT !.results = Append(@, result)]
       IN /\ goals' = [goals EXCEPT ![currentGoal].currentStep = @ + 1]
          /\ calls' = [calls EXCEPT ![r] =
                         IF ~result.success THEN GoalReturn(f2, currentGoal)
                         ELSE GoalLoopHead(f2, goals', currentGoal)]
  ELSE IF f.op = "autonomousExplore"
  THEN /\ calls' = [calls EXCEPT ![r] = [f EXCEPT !.pc = "wait"]]
       /\ UNCHANGED goals
  ELSE /\ calls' = [calls EXCEPT ![r] = [f EXCEPT !.pc = "returned", !.ret = result]]
       /\ UNCHANGED goals

\* variant: a success advances the step counter by two
AfterExecuteAction_StepsByTwo(r, f, result) ==
  IF f.op = "executeGoal"
  THEN LET f2 == [f EXCEPT !.results = Append(@, result)]
       IN IF ~result.success
          THEN /\ calls' = [calls EXCEPT ![r] = GoalReturn(f2, currentGoal)]
               /\ UNCHANGED goals
          ELSE /\ goals' = [goals EXCEPT ![currentGoal].currentStep = @ + 2]
               /\ calls' = [calls EXCEPT ![r] = GoalLoopHead(f2, goals', currentGoal)]
  ELSE IF f.op = "autonomousExplore"
  THEN /\ calls' = [calls EXCEPT ![r] = [f EXCEPT !.pc = "wait"]]
       /\ UNCHANGED goals
  ELSE /\ calls' = [calls EXCEPT ![r] = [f EXCEPT !.pc = "returned", !.ret = result]]
       /\ UNCHANGED goals

\* executeAction returned `result' to the frame f
\* variant: a failed action ends the exploration as it ends a goal run
AfterExecuteAction_ExploreBreaks(r, f, result) ==
  IF f.op = "executeGoal"
  THEN LET f2 == [f EXCEPT !.results = Append(@, result)]
       IN IF ~result.success
          THEN /\ calls' = [calls EXCEPT ![r] = GoalReturn(f2, currentGoal)]
               /\ UNCHANGED goals
          ELSE /\ goals' = [goals EXCEPT ![currentGoal].currentStep = @ + 1]
               /\ calls' = [calls EXCEPT ![r] = GoalLoopHead(f2, goals', currentGoal)]
  ELSE IF f.op = "autonomousExplore"
  THEN /\ calls' = [calls EXCEPT ![r] =
                      IF result.success THEN [f EXCEPT !.pc = "wait"]
                      ELSE [f EXCEPT !.pc = "returned", !.ret = f.exploration]]
       /\ UNCHANGED goals
  ELSE /\ calls' = [calls EXCEPT ![r] = [f EXCEPT !.pc = "returned", !.ret = result]]
       /\ UNCHANGED goals

AfterExecuteAction(r, f, result) ==
  IF f.op = "executeGoal"
  THEN LET f2 == [f EXCEPT !.results = Append(@, result)]
       IN IF ~result.success
          THEN /\ calls' = [calls EXCEPT ![r] = GoalReturn(f2, currentGoal)]
               /\ UNCHANGED goals
          ELSE /\ goals' = [goals EXCEPT ![currentGoal].currentStep = @ + 1]
               /\ calls' = [calls EXCEPT ![r] = GoalLoopHead(f2, goals', currentGoal)]
  ELSE IF f.op = "autonomousExplore"
  THEN /\ calls' = [calls EXCEPT ![r] = [f EXCEPT !.pc = "wait"]]
       /\ UNCHANGED goals
  ELSE /\ calls' = [calls EXCEPT ![r] = [f EXCEPT !.pc = "returned", !.ret = result]]
       /\ UNCHANGED goals

\* the click resolved: the outcome is recorded, then the settle delay
ActuationResolved(r) ==
  /\ calls[r].pc = "actuate"
  /\ actionHistory' = Append(actionHistory, SuccessOutcome(calls[r].action[1]))
  /\ calls' = [calls EXCEPT ![r] = [calls[r] EXCEPT !.pc = "settle"]]
  /\ UNCHANGED <<goals, currentGoal, dispatched, goalDispatched>>

\* variant: no catch block, the exception leaves executeAction and its caller
ActuationRaises_Escapes(r, err) ==
  /\ calls[r].pc = "actuate"
  /\ calls' = [calls EXCEPT ![r] = [calls[r] EXCEPT !.pc = "threw", !.ret = [error |-> err]]]
  /\ UNCHANGED <<actionHistory, goals, currentGoal, dispatched, goalDispatched>>

\* the click raised: the catch block records the failure and returns
ActuationRaises(r, err) ==
  /\ calls[r].pc = "actuate"
  /\ actionHistory' = Append(actionHistory, FailureOutcome(calls[r].action[1], err))
  /\ AfterExecuteAction(r, calls[r], [success |-> FALSE, error |-> err])
  /\ UNCHANGED <<currentGoal, dispatched, goalDispatched>>

\* the settle delay elapsed: executeAction returns its success
Settled(r) ==
  /\ calls[r].pc = "settle"
  /\ AfterExecuteAction(r, calls[r], [success |-> TRUE, action |-> calls[r].action[1]])
  /\ UNCHANGED <<actionHistory, currentGoal, dispatched, goalDispatched>>

\* the host takes the settled value of the call
Complete(r) ==
  /\ calls[r].pc \in {"returned", "threw"}
  /\ calls' = [calls EXCEPT ![r] = IdleFrame]
  /\ UNCHANGED <<actionHistory, goals, currentGoal, dispatched, goalDispatched>>

(***************************************************************************)
(* Calls of the host that do not overlap: a method is called only when no  *)
(* other call on the agent is in progress, so one frame serves them all.   *)
(***************************************************************************)
SeqReqs == {1}

Next ==
  \/ \E goal \in GoalArgs : Quiet /\ SetGoal(goal) /\ UNCHANGED hostVars
  \/ \E r \in SeqReqs : Quiet /\ ExecuteGoal(r) /\ UNCHANGED hostVars
  \/ \E r \in SeqReqs, options \in ExploreArgs : Quiet /\ AutonomousExplore(r, options) /\ UNCHANGED hostVars
  \/ \E r \in SeqReqs, iconName \in IconNames : Quiet /\ IdentifyAndClickIcon(r, iconName) /\ UNCHANGED hostVars
  \/ \E r \in SeqReqs : Quiet /\ GetActionHistory(r) /\ UNCHANGED hostVars
  \/ \E r \in SeqReqs, an \in Analyses : GoalAnalyzed(r, an) /\ UNCHANGED hostVars
  \/ \E r \in SeqReqs, an \in Analyses : ExploreAnalyzed(r, an) /\ UNCHANGED hostVars
  \/ \E r \in SeqReqs, an \in Analyses : ClickIconAnalyzed(r, an) /\ UNCHANGED hostVars
  \/ \E r \in SeqReqs : AnalyzeThrows(r) /\ UNCHANGED hostVars
  \/ \E r \in SeqReqs : ActuationResolved(r) /\ UNCHANGED hostVars
  \/ \E r \in SeqReqs, err \in ActuationErrors : ActuationRaises(r, err) /\ UNCHANGED hostVars
  \/ \E r \in SeqReqs : Settled(r) /\ UNCHANGED hostVars
  \/ \E r \in SeqReqs : WaitDone(r) /\ UNCHANGED hostVars
  \/ \E r \in SeqReqs : Complete(r) /\ UNCHANGED hostVars

Spec == Init /\ [][Next]_vars

(***************************************************************************)
(* executeGoal against a stubbed analyzeCurrentPage.  calculatePriority    *)
(* gives no element less than its base of 50, so the priority floor of     *)
(* executeGoal is exercised with ranked lists that the stub supplies,      *)
(* their priorities on both sides of the floor.                            *)
(***************************************************************************)
StubPriorities == {PriorityFloor - 1, PriorityFloor}

StubAction(element, p) == [PlannedAction(element, <<>>) EXCEPT !.priority = p]

\* ranked lists: descending by priority
StubPlans ==
  {<<>>}
    \cup { <<StubAction(e, p)>> : e \in {SubmitButton, NextLink}, p \in StubPriorities }
    \cup { <<StubAction(SubmitButton, pq[1]), StubAction(NextLink, pq[2])>> :
             pq \in { x \in StubPriorities \X StubPriorities : x[2] <= x[1] } }

NextStub ==
  \/ \E goal \in GoalArgs : Quiet /\ SetGoal(goal) /\ UNCHANGED hostVars
  \/ \E r \in SeqReqs : Quiet /\ ExecuteGoal(r) /\ UNCHANGED hostVars
  \/ \E r \in SeqReqs, suggestedActions \in StubPlans : GoalAnalyzedStub(r, suggestedActions) /\ UNCHANGED hostVars
  \/ \E r \in SeqReqs : ActuationResolved(r) /\ UNCHANGED hostVars
  \/ \E r \in SeqReqs, err \in ActuationErrors : ActuationRaises(r, err) /\ UNCHANGED hostVars
  \/ \E r \in SeqReqs : Settled(r) /\ UNCHANGED hostVars
  \/ \E r \in SeqReqs : Complete(r) /\ UNCHANGED hostVars

SpecStub == Init /\ [][NextStub]_vars

(***************************************************************************)
(* The planner on its own: the host sets goals and calls the planner's     *)
(* methods on elements and analyses of a wider pool, as test.js does.      *)
(***************************************************************************)
NextLabel == <<"N","e","x","t">>
SubmitNextLabel == <<"S","u","b","m","i","t"," ","n","e","x","t">>
CancelLabel == <<"C","a","n","c","e","l">>
SettingsLabel == <<"S","e","t","t","i","n","g","s">>
MenuSettingsLabel == <<"M","e","n","u"," ","s","e","t","t","i","n","g","s">>

KwConfirm == <<"c","o","n","f","i","r","m">>
KwMenu == <<"m","e","n","u">>
KwMenuCapital == <<"M","e","n","u">>

NextButton == Element("button", <<200, 300, 280, 340>>, 90, NextLabel, TRUE)
SubmitNextButton == Element("button", <<300, 300, 380, 340>>, 85, SubmitNextLabel, TRUE)
CancelButton == Element("button", <<400, 300, 480, 340>>, 95, CancelLabel, TRUE)
SettingsIcon == Element("icon", <<50, 50, 80, 80>>, 85, SettingsLabel, TRUE)
MenuSettingsIcon == Element("icon", <<10, 10, 50, 50>>, 85, MenuSettingsLabel, TRUE)

PlannerPool ==
  <<SubmitButton, NextButton, SubmitNextButton, CancelButton,
    SettingsIcon, MenuSettingsIcon, NextLink, LogoIcon>>

PlannerElements == { PlannerPool[k] : k \in 1..Len(PlannerPool) }

PlannerDetections ==
  UNION { { [i \in 1..n |-> PlannerPool[f[i]]] :
              f \in { g \in [1..n -> 1..Len(PlannerPool)] :
                        \A a, b \in 1..n : a # b => g[a] # g[b] } } :
          n \in 0..MaxElems }

PlannerAnalyses == { Analysis(d) : d \in PlannerDetections }

PlannerGoalArgs ==
  { GoalArg(<<"Find and click the submit button">>,
            << <<KwSubmit, KwButton, KwConfirm>> >>, <<"form">>, <<5>>),
    GoalArg(<<"Submit the form">>, << <<KwSubmit>> >>, <<>>, <<>>),
    GoalArg(<<"Press submit">>, << <<KwSubmit>> >>, <<"checkout">>, <<3>>),
    GoalArg(<<"Open the menu">>, << <<KwMenuCapital, KwMenu>> >>, <<>>, <<1>>),
    GoalArg(<<"Fill the form">>, << <<>> >>, <<"form">>, <<2>>) }

\* a synchronous method called by the host: the frame keeps the argument
\* and the returned value
SyncCall(name, argument, value) ==
  [CallFrame(name) EXCEPT !.pc = "returned", !.arg = <<argument>>, !.ret = value]

\* variant: planning a snapshot counts as a step of the active goal
GenerateActionPlan_CountsStep(r, analysis) ==
  /\ calls[r].pc = "idle"
  /\ calls' = [calls EXCEPT ![r] =
                 SyncCall("generateActionPlan", analysis,
                          generateActionPlan(analysis, GoalOpt(goals, currentGoal)))]
  /\ goals' = IF currentGoal = 0 THEN goals
              ELSE [goals EXCEPT ![currentGoal].currentStep = @ + 1]
  /\ UNCHANGED <<actionHistory, currentGoal, dispatched, goalDispatched>>

GenerateActionPlan(r, analysis) ==
  /\ calls[r].pc = "idle"
  /\ calls' = [calls EXCEPT ![r] =
                 SyncCall("generateActionPlan", analysis,
                          generateActionPlan(analysis, GoalOpt(goals, currentGoal)))]
  /\ UNCHANGED <<actionHistory, goals, currentGoal, dispatched, goalDispatched>>

CalculatePriority(r, element) ==
  /\ calls[r].pc = "idle"
  /\ calls' = [calls EXCEPT ![r] =
                 SyncCall("calculatePriority", element,
                          calculatePriority(element, GoalOpt(goals, currentGoal)))]
  /\ UNCHANGED <<actionHistory, goals, currentGoal, dispatched, goalDispatched>>

DetermineActionType(r, element) ==
  /\ calls[r].pc = "idle"
  /\ calls' = [calls EXCEPT ![r] =
                 SyncCall("determineActionType", element, determineActionType(element))]
  /\ UNCHANGED <<actionHistory, goals, currentGoal, dispatched, goalDispatched>>

NextPlanner ==
  \/ \E goal \in PlannerGoalArgs : Quiet /\ SetGoal(goal) /\ UNCHANGED hostVars
  \/ \E r \in SeqReqs, analysis \in PlannerAnalyses : Quiet /\ GenerateActionPlan(r, analysis) /\ UNCHANGED hostVars
  \/ \E r \in SeqReqs, element \in PlannerElements : Quiet /\ CalculatePriority(r, element) /\ UNCHANGED hostVars
  \/ \E r \in SeqReqs, element \in PlannerElements : Quiet /\ DetermineActionType(r, element) /\ UNCHANGED hostVars
  \/ \E r \in SeqReqs : Complete(r) /\ UNCHANGED hostVars

SpecPlanner == Init /\ [][NextPlanner]_vars

(***************************************************************************)
(* Goal setting: the host sets goals whose optional fields are given,      *)
(* omitted or falsy, and runs them on a surface that shows one link or     *)
(* nothing.                                                                *)
(***************************************************************************)
SetGoalArgs ==
  { GoalArg(<<"Find and click the submit button">>,
            << <<KwSubmit, KwButton, KwConfirm>> >>, <<"form">>, <<5>>),
    GoalArg(<<"Look around">>, <<>>, <<>>, <<>>),
    GoalArg(<<"Open the menu">>, << <<KwMenu>> >>, <<"">>, <<0>>),
    GoalArg(<<"Go back">>, <<>>, <<"history">>, <<-1>>),
    GoalArg(<<>>, << <<KwSubmit>> >>, <<"form">>, <<1>>) }

LinkAnalyses == { Analysis(<<>>), Analysis(<<NextLink>>) }

NextGoals ==
  \/ \E goal \in SetGoalArgs : Quiet /\ SetGoal(goal) /\ UNCHANGED hostVars
  \/ \E r \in SeqReqs : Quiet /\ ExecuteGoal(r) /\ UNCHANGED hostVars
  \/ \E r \in SeqReqs, an \in LinkAnalyses : GoalAnalyzed(r, an) /\ UNCHANGED hostVars
  \/ \E r \in SeqReqs : Settled(r) /\ UNCHANGED hostVars
  \/ \E r \in SeqReqs : Complete(r) /\ UNCHANGED hostVars

SpecGoals == Init /\ [][NextGoals]_vars

(***************************************************************************)
(* Exploration of surfaces that show up to four candidates.                *)
(***************************************************************************)
FourCandidates == Analysis(<<SettingsIcon, NextButton, NextLink, SubmitButton>>)

ExploreAnalyses == { Analysis(<<>>), Analysis(<<NextLink, SubmitButton>>), FourCandidates }

NextExplore ==
  \/ \E r \in SeqReqs, options \in ExploreArgs : Quiet /\ AutonomousExplore(r, options) /\ UNCHANGED hostVars
  \/ \E r \in SeqReqs, an \in ExploreAnalyses : ExploreAnalyzed(r, an) /\ UNCHANGED hostVars
  \/ \E r \in SeqReqs : ActuationResolved(r) /\ UNCHANGED hostVars
  \/ \E r \in SeqReqs, err \in ActuationErrors : ActuationRaises(r, err) /\ UNCHANGED hostVars
  \/ \E r \in SeqReqs : Settled(r) /\ UNCHANGED hostVars
  \/ \E r \in SeqReqs : WaitDone(r) /\ UNCHANGED hostVars
  \/ \E r \in SeqReqs : Complete(r) /\ UNCHANGED hostVars

SpecExplore == Init /\ [][NextExplore]_vars

(***************************************************************************)
(* Requests that overlap: the handlers of the host are async functions on  *)
(* one agent object, so a second request is served while the method call   *)
(* of the first is suspended at an await.                                  *)
(***************************************************************************)
OverlapGoalArgs == { GoalArg(<<"Open the menu">>, <<>>, <<>>, <<1>>) }
OverlapExploreArgs == { [maxActions |-> <<1>>] }
OverlapAnalyses == { Analysis(<<SubmitButton, LogoIcon>>) }

NextOverlap ==
  \/ \E goal \in OverlapGoalArgs : SetGoal(goal) /\ UNCHANGED hostVars
  \/ \E r \in Reqs : ExecuteGoal(r) /\ UNCHANGED hostVars
  \/ \E r \in Reqs, options \in OverlapExploreArgs : AutonomousExplore(r, options) /\ UNCHANGED hostVars
  \/ \E r \in Reqs, iconName \in IconNames : IdentifyAndClickIcon(r, iconName) /\ UNCHANGED hostVars
  \/ \E r \in Reqs, an \in OverlapAnalyses : GoalAnalyzed(r, an) /\ UNCHANGED hostVars
  \/ \E r \in Reqs, an \in OverlapAnalyses : ExploreAnalyzed(r, an) /\ UNCHANGED hostVars
  \/ \E r \in Reqs, an \in OverlapAnalyses : ClickIconAnalyzed(r, an) /\ UNCHANGED hostVars
  \/ \E r \in Reqs : ActuationResolved(r) /\ UNCHANGED hostVars
  \/ \E r \in Reqs, err \in ActuationErrors : ActuationRaises(r, err) /\ UNCHANGED hostVars
  \/ \E r \in Reqs : Settled(r) /\ UNCHANGED hostVars
  \/ \E r \in Reqs : WaitDone(r) /\ UNCHANGED hostVars
  \/ \E r \in Reqs : Complete(r) /\ UNCHANGED hostVars

SpecOverlap == Init /\ [][NextOverlap]_vars

(***************************************************************************)
(* The host's start, stop and shutdown handlers (index.js).  The browser   *)
(* of an agent object is "null" until puppeteer.launch resolves, then      *)
(* "open", and "closed" once browser.close() resolved; this.browser keeps  *)
(* its reference after the close.  newPage and navigateTo, which follow    *)
(* the launch and change no browser, are part of the step that responds.   *)
(***************************************************************************)
NewAgent == [browser |-> "null"]

HostQuiet == \A h \in HostReqs : handlers[h].pc = "idle"

Exited == \E h \in HostReqs : handlers[h].pc = "exited"

\* await autonomousAgent.cleanup(), up to its await: browser.close() is
\* called when this.browser is set
CallCleanup(name) ==
  [IdleHandler EXCEPT !.op = name, !.pc = "cleanup", !.agent = autonomousAgent,
                      !.closing = (agents[autonomousAgent].browser # "null")]

\* autonomousAgent = new AutonomousAgent(omniParser); await its initialize(),
\* up to the await of puppeteer.launch
CreateAndLaunch(h) ==
  /\ Len(agents) < MaxAgents
  /\ agents' = Append(agents, NewAgent)
  /\ autonomousAgent' = Len(agents) + 1
  /\ handlers' = [handlers EXCEPT ![h] =
                    [IdleHandler EXCEPT !.op = "start", !.pc = "launch",
                                        !.agent = Len(agents) + 1]]

Urls == { <<>>, <<"http://localhost:3000">> }

\* variant: a start does not clean up the agent in the slot
Start_NoCleanup(h, url) ==
  /\ ~Exited
  /\ handlers[h].pc = "idle"
  /\ IF url = <<>>
     THEN /\ handlers' = [handlers EXCEPT ![h] =
                            [IdleHandler EXCEPT !.op = "start", !.pc = "responded",
                                                !.status = 400]]
          /\ UNCHANGED <<autonomousAgent, agents>>
     ELSE CreateAndLaunch(h)
  /\ UNCHANGED agentVars

\* POST /api/autonomous/start
Start(h, url) ==
  /\ ~Exited
  /\ handlers[h].pc = "idle"
  /\ IF url = <<>>
     THEN /\ handlers' = [handlers EXCEPT ![h] =
                            [IdleHandler EXCEPT !.op = "start", !.pc = "responded",
                                                !.status = 400]]
          /\ UNCHANGED <<autonomousAgent, agents>>
     ELSE IF autonomousAgent # 0
     THEN /\ handlers' = [handlers EXCEPT ![h] = CallCleanup("start")]
          /\ UNCHANGED <<autonomousAgent, agents>>
     ELSE CreateAndLaunch(h)
  /\ UNCHANGED agentVars

\* POST /api/autonomous/stop
Stop(h) ==
  /\ ~Exited
  /\ handlers[h].pc = "idle"
  /\ handlers' = [handlers EXCEPT ![h] =
                    IF autonomousAgent = 0
                    THEN [IdleHandler EXCEPT !.op = "stop", !.pc = "responded", !.status = 400]
                    ELSE CallCleanup("stop")]
  /\ UNCHANGED <<autonomousAgent, agents>>
  /\ UNCHANGED agentVars

\* SIGINT
Shutdown(h) ==
  /\ ~Exited
  /\ handlers[h].pc = "idle"
  /\ handlers' = [handlers EXCEPT ![h] =
                    IF autonomousAgent = 0
                    THEN [IdleHandler EXCEPT !.op = "shutdown", !.pc = "exited"]
                    ELSE CallCleanup("shutdown")]
  /\ UNCHANGED <<autonomousAgent, agents>>
  /\ UNCHANGED agentVars

\* the agents after the cleanup awaited by `f' resolved
AfterClose(f) ==
  IF f.closing THEN [agents EXCEPT ![f.agent].browser = "closed"] ELSE agents

\* cleanup() resolved: the handler goes on after its await
CleanupDone(h) ==
  /\ ~Exited
  /\ handlers[h].pc = "cleanup"
  /\ IF handlers[h].op = "start"
     THEN /\ Len(agents) < MaxAgents
          /\ agents' = Append(AfterClose(handlers[h]), NewAgent)
          /\ autonomousAgent' = Len(agents) + 1
          /\ handlers' = [handlers EXCEPT ![h] =
                            [IdleHandler EXCEPT !.op = "start", !.pc = "launch",
                                                !.agent = Len(agents) + 1]]
     ELSE IF handlers[h].op = "stop"
     THEN /\ agents' = AfterClose(handlers[h])
          /\ autonomousAgent' = 0
          /\ handlers' = [handlers EXCEPT ![h] =
                            [handlers[h] EXCEPT !.pc = "responded", !.status = 200]]
     ELSE /\ agents' = AfterClose(handlers[h])
          /\ UNCHANGED autonomousAgent
          /\ handlers' = [handlers EXCEPT ![h] = [handlers[h] EXCEPT !.pc = "exited"]]
  /\ UNCHANGED agentVars

\* puppeteer.launch resolved: this.browser of the agent being initialised
\* is set, then the page is opened and autonomousAgent.navigateTo(url) is
\* called, which raises into the handler's catch when the slot is null by
\* then
Launched(h) ==
  /\ ~Exited
  /\ handlers[h].pc = "launch"
  /\ agents' = [agents EXCEPT ![handlers[h].agent].browser = "open"]
  /\ handlers' = [handlers EXCEPT ![h] =
                    [handlers[h] EXCEPT !.pc = "responded",
                                        !.status = IF autonomousAgent = 0 THEN 500 ELSE 200]]
  /\ UNCHANGED autonomousAgent
  /\ UNCHANGED agentVars

\* puppeteer.launch raised: the handler's catch answers 500
LaunchFails(h) ==
  /\ ~Exited
  /\ handlers[h].pc = "launch"
  /\ handlers' = [handlers EXCEPT ![h] = [handlers[h] EXCEPT !.pc = "responded", !.status = 500]]
  /\ UNCHANGED <<autonomousAgent, agents>>
  /\ UNCHANGED agentVars

\* the response has been sent
Responded(h) ==
  /\ ~Exited
  /\ handlers[h].pc = "responded"
  /\ handlers' = [handlers EXCEPT ![h] = IdleHandler]
  /\ UNCHANGED <<autonomousAgent, agents>>
  /\ UNCHANGED agentVars

\* requests handled one after another
NextHost ==
  \/ \E h \in SeqReqs, url \in Urls : HostQuiet /\ Start(h, url)
  \/ \E h \in SeqReqs : HostQuiet /\ Stop(h)
  \/ \E h \in SeqReqs : HostQuiet /\ Shutdown(h)
  \/ \E h \in SeqReqs : CleanupDone(h)
  \/ \E h \in SeqReqs : Launched(h)
  \/ \E h \in SeqReqs : LaunchFails(h)
  \/ \E h \in SeqReqs : Responded(h)

SpecHost == Init /\ [][NextHost]_vars

\* requests that overlap at their awaits
NextHostOverlap ==
  \/ \E h \in HostReqs, url \in Urls : Start(h, url)
  \/ \E h \in HostReqs : Stop(h)
  \/ \E h \in HostReqs : Shutdown(h)
  \/ \E h \in HostReqs : CleanupDone(h)
  \/ \E h \in HostReqs : Launched(h)
  \/ \E h \in HostReqs : LaunchFails(h)
  \/ \E h \in HostReqs : Responded(h)

SpecHostOverlap == Init /\ [][NextHostOverlap]_vars

(***************************************************************************)
(* Properties.                                                             *)
(***************************************************************************)
Last(s) == s[Len(s)]

IsPrefix(s, t) == Len(s) <= Len(t) /\ SubSeq(t, 1, Len(s)) = s

GoalFrames == { r \in Reqs : calls[r].op = "executeGoal" }

\* the outcomes recorded since the call of request r
RunOutcomes(r) == SubSeq(actionHistory, calls[r].hist0 + 1, Len(actionHistory))

\* C1: one executeGoal() call on a goal with maxSteps >= 1 makes at most
\* maxSteps calls of executeAction, whatever the snapshots and the outcomes.
C1_DispatchesPerCallAtMostMaxSteps ==
  \A r \in GoalFrames :
    (calls[r].goal0 # 0 /\ goals[calls[r].goal0].maxSteps >= 1)
      => calls[r].n <= goals[calls[r].goal0].maxSteps

C1_Witness ==
  \E r \in GoalFrames :
    /\ calls[r].pc = "returned"
    /\ goals[calls[r].goal0].maxSteps = 2
    /\ calls[r].n = 2

\* C2: between one setGoal and the next, the executeAction calls made by all
\* executeGoal() calls together never exceed the goal's maxSteps.
C2_DispatchesPerGoalAtMostMaxSteps ==
  (currentGoal # 0 /\ goals[currentGoal].maxSteps >= 1)
    => goalDispatched <= goals[currentGoal].maxSteps

\* C3: the active goal, set with maxSteps >= 1, always has
\* 0 <= currentStep <= maxSteps.
C3_CurrentStepWithinBudget ==
  (currentGoal # 0 /\ goals[currentGoal].maxSteps >= 1)
    => /\ 0 <= goals[currentGoal].currentStep
       /\ goals[currentGoal].currentStep <= goals[currentGoal].maxSteps

C3_Witness ==
  /\ Quiet
  /\ currentGoal # 0
  /\ goals[currentGoal].currentStep = goals[currentGoal].maxSteps
  /\ Len(actionHistory) > goals[currentGoal].maxSteps

\* C4: once an action dispatched by executeGoal() has failed the call has
\* returned: the failed outcome is the last step and the only failed one, no
\* further action was dispatched, currentStep counts the successes only, and
\* the result has success = false (with one step when the first action failed).
C4_FailureEndsRun ==
  \A r \in GoalFrames :
    (\E k \in 1..Len(calls[r].results) : ~calls[r].results[k].success)
      => /\ calls[r].pc = "returned"
         /\ ~Last(calls[r].results).success
         /\ \A k \in 1..(Len(calls[r].results) - 1) : calls[r].results[k].success
         /\ calls[r].n = Len(calls[r].results)
         /\ goals[calls[r].goal0].currentStep = calls[r].step0 + Len(calls[r].results) - 1
         /\ calls[r].ret.steps = calls[r].results
         /\ calls[r].ret.success = FALSE
         /\ (~calls[r].results[1].success => Len(calls[r].ret.steps) = 1)

C4_Witness ==
  \E r \in GoalFrames :
    /\ calls[r].pc = "returned"
    /\ Len(calls[r].ret.steps) = 2
    /\ calls[r].ret.steps[1].success
    /\ ~calls[r].ret.steps[2].success

\* C5: executeGoal() on an agent that never had a goal fails at once with an
\* error: no snapshot, no dispatch, history and goal state as before the call.
C5_NoGoalFailsWithoutEffect ==
  [][\A r \in Reqs :
       (calls[r].pc = "idle" /\ calls'[r].op = "executeGoal" /\ goals = <<>>)
         => /\ calls'[r].pc = "threw"
            /\ calls'[r].ret = [error |-> "No goal set"]
            /\ calls'[r].shots = 0
            /\ calls'[r].n = 0
            /\ actionHistory' = actionHistory
            /\ goals' = goals
            /\ currentGoal' = currentGoal
            /\ dispatched' = dispatched]_vars

C5_Witness ==
  \E r \in GoalFrames :
    /\ calls[r].pc = "threw"
    /\ goals = <<>>
    /\ Len(actionHistory) > 0

\* C6: when the actuation call raises, executeAction does not raise: it
\* appends one outcome with success = false and the error text to the
\* history and returns success = false with that text.
C6_ExecuteActionCatches ==
  [][\A r \in Reqs :
       (calls[r].pc = "actuate" /\ calls'[r] # calls[r] /\ calls'[r].pc # "settle")
         => /\ calls'[r].pc # "threw"
            /\ Len(actionHistory') = Len(actionHistory) + 1
            /\ SubSeq(actionHistory', 1, Len(actionHistory)) = actionHistory
            /\ \E err \in ActuationErrors :
                 /\ Last(actionHistory') =
                      [action |-> calls[r].action[1], success |-> FALSE, error |-> err]
                 /\ calls[r].op = "identifyAndClickIcon"
                      => calls'[r].ret = [success |-> FALSE, error |-> err]
                 /\ calls[r].op = "executeGoal"
                      => Last(calls'[r].results) = [success |-> FALSE, error |-> err]]_vars

C6_Witness ==
  \E r \in Reqs :
    /\ calls[r].op = "identifyAndClickIcon"
    /\ calls[r].pc = "returned"
    /\ calls[r].n = 1
    /\ ~calls[r].ret.success
    /\ ~Last(actionHistory).success

\* C7: the action history only grows at its end: its value before a step is
\* a prefix of its value after the step, for every operation.
C7_HistoryAppendOnly == [][IsPrefix(actionHistory, actionHistory')]_vars

C7_Witness ==
  /\ Len(goals) = 2
  /\ goals[1].currentStep >= 1
  /\ Len(actionHistory) = 2
  /\ \E r \in Reqs : calls[r].op = "getActionHistory" /\ calls[r].pc = "returned"

\* C8: the length of the action history equals the number of executeAction
\* calls made so far, those still awaiting their actuation call excepted.
C8_HistoryLengthIsDispatchCount ==
  Len(actionHistory) + Cardinality({ r \in Reqs : calls[r].pc = "actuate" }) = dispatched

C8_Witness ==
  /\ Quiet
  /\ dispatched = 2
  /\ ~actionHistory[1].success
  /\ actionHistory[2].success
  /\ actionHistory[2].action.type = "interact"

\* C9: the success of the result of executeGoal() is true exactly when every
\* outcome recorded during the run succeeded, and the steps of the result
\* are the outcomes of the run in the order of dispatch.
C9_ResultReflectsOutcomes ==
  \A r \in GoalFrames :
    (calls[r].pc = "returned")
      => /\ calls[r].ret.success = (\A k \in 1..Len(RunOutcomes(r)) : RunOutcomes(r)[k].success)
         /\ Len(calls[r].ret.steps) = Len(RunOutcomes(r))
         /\ \A k \in 1..Len(RunOutcomes(r)) :
              /\ calls[r].ret.steps[k].success = RunOutcomes(r)[k].success
              /\ RunOutcomes(r)[k].success
                   => calls[r].ret.steps[k].action = RunOutcomes(r)[k].action
              /\ ~RunOutcomes(r)[k].success
                   => calls[r].ret.steps[k].error = RunOutcomes(r)[k].error

C9_Witness ==
  \E r \in GoalFrames :
    /\ calls[r].pc = "returned"
    /\ calls[r].ret.success
    /\ Len(calls[r].ret.steps) = 2
    /\ calls[r].ret.steps[1].action # calls[r].ret.steps[2].action

\* C10: for a snapshot with no interactable element the plan is empty, and
\* executeGoal() then returns without dispatching; when it was the first
\* snapshot of the call, currentStep and the history are as at the call and
\* the result has zero steps and success = true.
C10_EmptySnapshotEndsRun ==
  /\ \A an \in Analyses :
       an.elements.interactable = <<>>
         => generateActionPlan(an, GoalOpt(goals, currentGoal)) = <<>>
  /\ \A r \in GoalFrames :
       (calls[r].shots >= 1 /\ calls[r].noActions)
         => /\ calls[r].pc = "returned"
            /\ calls[r].n = Len(calls[r].results)
            /\ Len(actionHistory) = calls[r].hist0 + calls[r].n
            /\ calls[r].shots = 1
                 => /\ calls[r].n = 0
                    /\ Len(actionHistory) = calls[r].hist0
                    /\ goals[calls[r].goal0].currentStep = calls[r].step0
                    /\ calls[r].ret.steps = <<>>
                    /\ calls[r].ret.success = TRUE

C10_Witness ==
  \E r \in GoalFrames :
    /\ calls[r].pc = "returned"
    /\ calls[r].shots = 1
    /\ calls[r].noActions
    /\ calls[r].ret.steps = <<>>
    /\ calls[r].ret.success

\* C11: executeGoal() dispatches an action only if its priority is at least
\* 30: a step of the loop whose top candidate is below 30 ends the call in a
\* normal return without a dispatch and without a change of the history, and
\* when that was the first snapshot of the call the call dispatched nothing
\* and returns zero steps.
C11_PriorityFloor ==
  [][\A r \in Reqs :
       /\ (calls[r].op = "executeGoal" /\ calls'[r].n = calls[r].n + 1)
            => calls'[r].action[1].priority >= 30
       /\ \A suggestedActions \in StubPlans :
            (/\ suggestedActions # <<>>
             /\ suggestedActions[1].priority < 30
             /\ GoalAnalyzedStub(r, suggestedActions))
              => /\ calls'[r].pc = "returned"
                 /\ calls'[r].n = calls[r].n
                 /\ calls'[r].ret.steps = calls[r].results
                 /\ actionHistory' = actionHistory
                 /\ dispatched' = dispatched
                 /\ goals' = goals
                 /\ calls[r].shots = 0
                      => calls'[r].n = 0 /\ calls'[r].ret.steps = <<>>]_vars

\* a run ended by the floor at its first snapshot, and another at its second
C11_Witness ==
  \E r \in GoalFrames :
    /\ calls[r].pc = "returned"
    /\ ~calls[r].noActions
    /\ calls[r].ret.success
    /\ goals[calls[r].goal0].currentStep < goals[calls[r].goal0].maxSteps
    /\ calls[r].shots = 2
    /\ calls[r].n = 1
    /\ Len(actionHistory) = 2

\* C12: in a call of executeGoal() on a freshly set goal (currentStep 0 at
\* the call) in which no snapshot gave an empty plan and no action failed,
\* currentStep equals the number of actions completed so far, and when the
\* call has returned it has dispatched exactly maxSteps actions, currentStep
\* is maxSteps and the result has maxSteps steps and success = true.
C12_FullRunUsesWholeBudget ==
  \A r \in GoalFrames :
    (/\ calls[r].goal0 # 0
     /\ calls[r].step0 = 0
     /\ goals[calls[r].goal0].maxSteps >= 1
     /\ ~calls[r].noActions
     /\ \A k \in 1..Len(calls[r].results) : calls[r].results[k].success)
      => /\ goals[calls[r].goal0].currentStep = Len(calls[r].results)
         /\ calls[r].pc = "returned"
              => /\ calls[r].n = goals[calls[r].goal0].maxSteps
                 /\ goals[calls[r].goal0].currentStep = goals[calls[r].goal0].maxSteps
                 /\ Len(calls[r].ret.steps) = goals[calls[r].goal0].maxSteps
                 /\ calls[r].ret.success = TRUE

C12_Witness ==
  \E r \in GoalFrames :
    /\ calls[r].pc = "returned"
    /\ calls[r].step0 = 0
    /\ ~calls[r].noActions
    /\ calls[r].shots = 2
    /\ goals[calls[r].goal0].maxSteps = 2
    /\ goals[calls[r].goal0].currentStep = 2
    /\ calls[r].ret.success

\* the returned calls of a synchronous method
Returned(name) == { r \in Reqs : calls[r].op = name /\ calls[r].pc = "returned" }

\* C13: every priority the planner returns, by calculatePriority for any
\* element and goal and in every action of a plan, is an integer from 0 to
\* 100, however many keywords of the goal match the label.
C13_PriorityInRange ==
  /\ \A r \in Returned("calculatePriority") : calls[r].ret \in 0..100
  /\ \A r \in Returned("generateActionPlan") :
       \A k \in 1..Len(calls[r].ret) : calls[r].ret[k].priority \in 0..100

\* a plan under the goal of three keywords, two of them in the label
C13_Witness ==
  \E r \in Returned("generateActionPlan") :
    /\ currentGoal # 0
    /\ Len(goals[currentGoal].keywords) = 3
    /\ Len(calls[r].ret) = 2
    /\ calls[r].ret[1].target = SubmitButton
    /\ calls[r].ret[1].priority = 100
    /\ calls[r].ret[2].priority < 100

\* the place of element e in the list of elements
IndexOf(list, e) == CHOOSE j \in 1..Len(list) : list[j] = e

\* C14: the plan returned for an analysis has exactly one action for each
\* element of its interactable list and no other, is in descending order of
\* priority, and actions of equal priority are in the order of their
\* elements in the list.
C14_PlanIsStableRanking ==
  \A r \in Returned("generateActionPlan") :
    LET interactable == calls[r].arg[1].elements.interactable
        plan == calls[r].ret
    IN /\ Len(plan) = Len(interactable)
       /\ \A j \in 1..Len(interactable) :
            Cardinality({ k \in 1..Len(plan) : plan[k].target = interactable[j] }) = 1
       /\ \A a, b \in 1..Len(plan) :
            a < b => /\ plan[a].priority >= plan[b].priority
                     /\ plan[a].priority = plan[b].priority
                          => IndexOf(interactable, plan[a].target)
                               < IndexOf(interactable, plan[b].target)

\* a tie kept in snapshot order in one call, a reordering in another
C14_Witness ==
  \E r \in Returned("generateActionPlan") :
    /\ Len(calls[r].ret) = 2
    /\ calls[r].ret[1].priority = calls[r].ret[2].priority
    /\ calls[r].ret[1].target = MenuSettingsIcon
    /\ calls[r].ret[2].target = SettingsIcon

\* the keywords of the active goal, none when there is no goal
ActiveKeywords == IF currentGoal = 0 THEN <<>> ELSE goals[currentGoal].keywords

\* the priority as the sum of its rules: the matching keywords are counted
\* by their places in the list, so a keyword given twice counts twice
RuleSum(e, kws) ==
  50 + (IF e.confidence > 90 THEN 20 ELSE 0)
     + 30 * Cardinality({ k \in 1..Len(kws) : Includes(ToLower(e.label), ToLower(kws[k])) })
     + (IF e.type = "button" THEN 10 ELSE 0)
     + (IF e.interactable THEN 10 ELSE 0)

\* C15: the priority of an element is min(100, 50 + 20 if its confidence is
\* above 0.9 + 30 for each keyword of the active goal found in the label
\* without regard to case + 10 for a button + 10 when interactable); the
\* button 'Submit Button' of confidence 0.95 gets 100 with keywords
\* ['submit'] and 90 with no goal, and the button 'Next' of confidence
\* exactly 0.9 gets no confidence bonus (70 with no goal).
C15_PriorityFormula ==
  /\ \A r \in Returned("calculatePriority") :
       /\ calls[r].ret = IF RuleSum(calls[r].arg[1], ActiveKeywords) > 100 THEN 100
                         ELSE RuleSum(calls[r].arg[1], ActiveKeywords)
       /\ (calls[r].arg[1] = SubmitButton /\ ActiveKeywords = <<KwSubmit>>) => calls[r].ret = 100
       /\ (calls[r].arg[1] = SubmitButton /\ currentGoal = 0) => calls[r].ret = 90
       /\ (calls[r].arg[1] = NextButton /\ currentGoal = 0) => calls[r].ret = 70
  /\ \A r \in Returned("generateActionPlan") :
       \A k \in 1..Len(calls[r].ret) :
         calls[r].ret[k].priority =
           IF RuleSum(calls[r].ret[k].target, ActiveKeywords) > 100 THEN 100
           ELSE RuleSum(calls[r].ret[k].target, ActiveKeywords)

\* a keyword given twice, in two cases of letters, counted twice
C15_Witness ==
  \E r \in Returned("calculatePriority") :
    /\ calls[r].arg[1] = MenuSettingsIcon
    /\ ActiveKeywords = <<KwMenuCapital, KwMenu>>
    /\ calls[r].ret = 100

\* C16: the priority depends on the goal through its keywords only: the
\* priority returned under the active goal is the one every stored goal of
\* the same keywords gives, whatever its description, context and maxSteps,
\* and under an active goal without keywords it is the one no goal gives.
C16_PriorityReadsKeywordsOnly ==
  /\ \A r \in Returned("calculatePriority") :
       /\ \A i \in 1..Len(goals) :
            goals[i].keywords = ActiveKeywords
              => calls[r].ret = calculatePriority(calls[r].arg[1], <<goals[i]>>)
       /\ ActiveKeywords = <<>> => calls[r].ret = calculatePriority(calls[r].arg[1], <<>>)
  /\ \A i, j \in 1..Len(goals) :
       goals[i].keywords = goals[j].keywords
         => \A e \in PlannerElements :
              calculatePriority(e, <<goals[i]>>) = calculatePriority(e, <<goals[j]>>)

\* the link scored under one of two goals that share their keywords and
\* differ in description, context and maxSteps
C16_Witness ==
  \E r \in Returned("calculatePriority") :
    /\ calls[r].arg[1] = NextLink
    /\ Len(goals) = 2
    /\ goals[1].keywords = <<KwSubmit>>
    /\ goals[2].keywords = <<KwSubmit>>
    /\ goals[1].context # goals[2].context
    /\ goals[1].description # goals[2].description
    /\ goals[1].maxSteps # goals[2].maxSteps

\* the rules of the action type in their order; an empty word is in every
\* label
TypeRules ==
  << [type |-> "button", word |-> KwSubmit, action |-> "submit"],
     [type |-> "button", word |-> NextLabel, action |-> "navigate"],
     [type |-> "button", word |-> <<>>, action |-> "click"],
     [type |-> "icon", word |-> KwMenu, action |-> "expand"],
     [type |-> "icon", word |-> SettingsLabel, action |-> "configure"],
     [type |-> "icon", word |-> <<>>, action |-> "click"] >>

RuleApplies(k, e) ==
  /\ TypeRules[k].type = e.type
  /\ Includes(ToLower(e.label), ToLower(TypeRules[k].word))

FirstRuleType(e) ==
  IF \E k \in 1..Len(TypeRules) : RuleApplies(k, e)
  THEN TypeRules[CHOOSE k \in 1..Len(TypeRules) :
                   RuleApplies(k, e) /\ \A j \in 1..(k - 1) : ~RuleApplies(j, e)].action
  ELSE "interact"

\* C17: the action type of an element is that of the first rule that
\* applies, the label compared without regard to case: button with 'submit'
\* submit, else with 'next' navigate, else click; icon with 'menu' expand,
\* else with 'settings' configure, else click; any other type interact.  The
\* button 'Submit next' is submit and the icon 'Menu settings' is expand.
C17_ActionTypeByFirstRule ==
  /\ \A r \in Returned("determineActionType") :
       /\ calls[r].ret = FirstRuleType(calls[r].arg[1])
       /\ calls[r].arg[1] = SubmitNextButton => calls[r].ret = "submit"
       /\ calls[r].arg[1] = MenuSettingsIcon => calls[r].ret = "expand"
       /\ calls[r].arg[1] = SubmitButton => calls[r].ret = "submit"
       /\ calls[r].arg[1] = NextButton => calls[r].ret = "navigate"
       /\ calls[r].arg[1] = CancelButton => calls[r].ret = "click"
       /\ calls[r].arg[1] = SettingsIcon => calls[r].ret = "configure"
       /\ calls[r].arg[1] = LogoIcon => calls[r].ret = "click"
       /\ calls[r].arg[1] = NextLink => calls[r].ret = "interact"
  /\ \A r \in Returned("generateActionPlan") :
       \A k \in 1..Len(calls[r].ret) :
         calls[r].ret[k].type = FirstRuleType(calls[r].ret[k].target)

C17_Witness ==
  \E r \in Returned("determineActionType") :
    /\ calls[r].arg[1].type = "button"
    /\ Includes(ToLower(calls[r].arg[1].label), KwSubmit)
    /\ Includes(ToLower(calls[r].arg[1].label), ToLower(NextLabel))
    /\ calls[r].ret = "submit"

C19_ActiveGoalHasDescription ==
  currentGoal # 0 => goals[currentGoal].description # Undefined

\* C20: every stored goal has maxSteps >= 1.
C20_StoredMaxStepsPositive ==
  \A k \in 1..Len(goals) : goals[k].maxSteps >= 1

\* C21: the target of every action handed to executeAction, by executeGoal,
\* by autonomousExplore or by identifyAndClickIcon, has interactable = true.
C21_DispatchedTargetsInteractable ==
  /\ \A r \in Reqs :
       calls[r].action # <<>> => calls[r].action[1].target.interactable
  /\ \A k \in 1..Len(actionHistory) : actionHistory[k].action.target.interactable

ExploreFrames == { r \in Reqs : calls[r].op = "autonomousExplore" }

\* the cap the caller asked for: maxActions as passed, 5 when omitted
RequestedMaxActions(r) ==
  IF calls[r].arg[1].maxActions = <<>> THEN 5 ELSE calls[r].arg[1].maxActions[1]

\* C22: autonomousExplore called with maxActions >= 0 (5 when omitted)
\* dispatches at most maxActions actions and logs at most maxActions
\* entries, and returns exactly maxActions entries when no snapshot gave an
\* empty plan.
C22_ExploreWithinMaxActions ==
  \A r \in ExploreFrames :
    /\ calls[r].n <= RequestedMaxActions(r)
    /\ Len(calls[r].exploration) <= RequestedMaxActions(r)
    /\ (calls[r].pc = "returned" /\ ~calls[r].noActions)
         => Len(calls[r].ret) = RequestedMaxActions(r)

\* C23: the exploration log has an entry for a step only when the action of
\* that step was dispatched: the log is never longer than the number of
\* actions dispatched by the call, and the returned log has exactly that
\* length.
C23_LogCountsDispatchedSteps ==
  \A r \in ExploreFrames :
    /\ Len(calls[r].exploration) <= calls[r].n
    /\ calls[r].pc = "returned" => Len(calls[r].ret) = calls[r].n

\* C24: exploration ranks without the goal: the priority of every action an
\* exploration dispatches is the one the element gets with no active goal,
\* whatever goal is active, and during an exploration the active goal and
\* its currentStep stay as they were at the call.
C24_ExploreIgnoresGoal ==
  \A r \in ExploreFrames :
    /\ calls[r].action # <<>>
         => calls[r].action[1].priority = calculatePriority(calls[r].action[1].target, <<>>)
    /\ currentGoal = calls[r].goal0
    /\ calls[r].goal0 # 0 => goals[calls[r].goal0].currentStep = calls[r].step0

\* C25: the action an exploration step dispatches is one of the first
\* min(3, n) entries of the ranked plan of the snapshot of that step, n the
\* number of candidates; the fourth candidate of four is never dispatched.
C25_ExplorePicksFromTopThree ==
  [][\A r \in Reqs, an \in ExploreAnalyses :
       (ExploreAnalyzed(r, an) /\ calls'[r].n = calls[r].n + 1)
         => LET plan == generateActionPlan(an, GoalOpt(goals, currentGoal))
            IN /\ \E k \in 1..Len(plan) :
                    k <= 3 /\ calls'[r].action = <<plan[k]>>
               /\ Len(plan) >= 4 => calls'[r].action # <<plan[4]>>]_vars

\* the third of four candidates dispatched after the first
C25_Witness ==
  \E r \in ExploreFrames :
    /\ calls[r].n = 2
    /\ calls[r].action # <<>>
    /\ calls[r].action[1].target = NextButton
    /\ Len(actionHistory) >= 1
    /\ actionHistory[1].action.target = SubmitButton

\* the requests whose executeAction call has begun and not returned
InExecuteAction == { r \in Reqs : calls[r].pc \in {"actuate", "settle"} }

\* C26: at most one executeAction call of the agent is in progress at any
\* time, also when requests on the same agent overlap.
C26_OneDispatchAtATime == Cardinality(InExecuteAction) <= 1

\* the agents whose browser is open
OpenBrowsers == { a \in 1..Len(agents) : agents[a].browser = "open" }

\* C27: with start and stop requests handled one after another, no browser
\* is open while a new one is being launched (the previous agent's browser
\* was closed first), at most one browser is open at any time, and an open
\* browser belongs to the agent in the slot.
C27_OneBrowserOfTheSlot ==
  /\ Cardinality(OpenBrowsers) <= 1
  /\ \A a \in OpenBrowsers : a = autonomousAgent
  /\ \A h \in HostReqs : handlers[h].pc = "launch" => OpenBrowsers = {}

\* a second start closed the first agent's browser and opened its own
C27_Witness ==
  /\ HostQuiet
  /\ Len(agents) = 2
  /\ agents[1].browser = "closed"
  /\ agents[2].browser = "open"
  /\ autonomousAgent = 2

\* C28: once the start and stop requests in progress have completed, every
\* browser that was launched and is still open belongs to the agent in the
\* slot; none is open with the slot empty or holding another agent.
C28_NoBrowserLeftBehind ==
  HostQuiet => \A a \in OpenBrowsers : a = autonomousAgent

\* C29: a call of executeGoal() made with a goal set never ends in an
\* exception, whatever fails while the snapshot is acquired.
C29_ExecuteGoalNeverRaises ==
  \A r \in GoalFrames : calls[r].goal0 # 0 => calls[r].pc # "threw"

\* C30: executeAction returns to its caller only from the settle delay: a
\* step that ends an executeAction call starts where the call awaits the
\* delay, whether the dispatch succeeded or raised.
C30_ReturnsAfterSettleDelay ==
  [][\A r \in Reqs :
       (calls[r].pc \in {"actuate", "settle"} /\ calls'[r].pc \notin {"actuate", "settle"})
         => calls[r].pc = "settle"]_vars

(***************************************************************************)
(* executeAction called by itself, with actions of every type of the       *)
(* switch and of two types it does not name, on a target whose midpoint    *)
(* is whole and on one whose midpoint is not.                              *)
(***************************************************************************)
EmailInput == Element("input", <<51, 300, 300, 351>>, 80, <<"E","m","a","i","l">>, TRUE)

ActionArgs ==
  { [type |-> t, target |-> e] : t \in ClickTypes \cup {"hover", "interact", "scroll"},
                                 e \in {SubmitButton, EmailInput} }

ExecuteAction(r, action) ==
  /\ calls[r].pc = "idle"
  /\ Dispatch(r, CallFrame("executeAction"), action)
  /\ UNCHANGED <<goals, currentGoal>>

NextActions ==
  \/ \E r \in SeqReqs, action \in ActionArgs : ExecuteAction(r, action) /\ UNCHANGED hostVars
  \/ \E r \in SeqReqs : ActuationResolved(r) /\ UNCHANGED hostVars
  \/ \E r \in SeqReqs, err \in ActuationErrors : ActuationRaises(r, err) /\ UNCHANGED hostVars
  \/ \E r \in SeqReqs : Settled(r) /\ UNCHANGED hostVars
  \/ \E r \in SeqReqs : Complete(r) /\ UNCHANGED hostVars

SpecActions == Init /\ [][NextActions]_vars

\* the point `at' is the midpoint of the box
AtMidpoint(at, bbox) ==
  /\ 2 * at.x.whole + (IF at.x.half THEN 1 ELSE 0) = bbox[1] + bbox[3]
  /\ 2 * at.y.whole + (IF at.y.half THEN 1 ELSE 0) = bbox[2] + bbox[4]

\* C31: an executeAction call issues exactly one click at the midpoint of
\* the target's box for click, submit, navigate, expand and configure,
\* exactly one move to the midpoint and no click for hover, and for any
\* other type no mouse call at all, in which case it goes on without an
\* await that can raise, records a success and returns it.
C31_DispatchRule ==
  \A r \in Reqs :
    calls[r].action # <<>> =>
      LET f == calls[r]
          a == f.action[1]
      IN /\ a.type \in {"click", "submit", "navigate", "expand", "configure"} =>
              /\ Len(f.mouse) = 1
              /\ f.mouse[1].method = "click"
              /\ AtMidpoint(f.mouse[1].at, a.target.bbox)
         /\ a.type = "hover" =>
              /\ Len(f.mouse) = 1
              /\ f.mouse[1].method = "move"
              /\ AtMidpoint(f.mouse[1].at, a.target.bbox)
         /\ a.type \notin {"click", "submit", "navigate", "expand", "configure", "hover"} =>
              /\ f.mouse = <<>>
              /\ f.pc \in {"settle", "returned"}
              /\ actionHistory # <<>>
              /\ Last(actionHistory) = [action |-> a, success |-> TRUE]
              /\ f.pc = "returned" => f.ret = [success |-> TRUE, action |-> a]

\* a hover on the box whose midpoint is (175.5, 325.5) has returned after
\* one move, and the call before it was of a type the switch does not name
C31_Witness ==
  /\ calls[1].op = "executeAction"
  /\ calls[1].pc = "returned"
  /\ calls[1].action = <<[type |-> "hover", target |-> EmailInput]>>
  /\ calls[1].mouse = <<[method |-> "move",
                         at |-> [x |-> [whole |-> 175, half |-> TRUE],
                                 y |-> [whole |-> 325, half |-> TRUE]]]>>
  /\ Len(actionHistory) = 2
  /\ actionHistory[1].action.type = "scroll"
  /\ actionHistory[1].success

(***************************************************************************)
(* Calls that do not overlap, made by callers that keep what the call      *)
(* before returned: a call starts when no call is in progress, and the     *)
(* frame of a settled call keeps its value until its caller drops it.      *)
(***************************************************************************)
NoCallRunning == \A q \in Reqs : calls[q].pc \in {"idle", "returned", "threw"}

NextHeld ==
  \/ \E goal \in GoalArgs : NoCallRunning /\ SetGoal(goal) /\ UNCHANGED hostVars
  \/ \E r \in Reqs : NoCallRunning /\ ExecuteGoal(r) /\ UNCHANGED hostVars
  \/ \E r \in Reqs, an \in Analyses : GoalAnalyzed(r, an) /\ UNCHANGED hostVars
  \/ \E r \in Reqs : AnalyzeThrows(r) /\ UNCHANGED hostVars
  \/ \E r \in Reqs : ActuationResolved(r) /\ UNCHANGED hostVars
  \/ \E r \in Reqs, err \in ActuationErrors : ActuationRaises(r, err) /\ UNCHANGED hostVars
  \/ \E r \in Reqs : Settled(r) /\ UNCHANGED hostVars
  \/ \E r \in Reqs : Complete(r) /\ UNCHANGED hostVars

SpecHeld == Init /\ [][NextHeld]_vars

\* C32: the goal in the result of executeGoal() is a snapshot: as long as
\* the caller holds the result, the fields of its goal, currentStep
\* included, stay what they were, whatever executeGoal() or setGoal() call
\* is made on the agent afterwards.
C32_ResultGoalIsSnapshot ==
  [][\A r \in Reqs :
       ( /\ calls[r].op = "executeGoal"
         /\ calls[r].pc = "returned"
         /\ calls'[r] = calls[r] )
       => goals'[calls[r].ret.goal] = goals[calls[r].ret.goal]]_vars

\* C33: the reasoning of each planned action is the '; '-joined list of
\* the justifications that triggered, in the order high confidence,
\* interactable, goal match (a keyword of the active goal occurs in the
\* lowercased label), and 'Standard interaction' when none triggered.
C33_ReasoningListsJustifications ==
  \A r \in Returned("generateActionPlan") :
    \A k \in 1..Len(calls[r].ret) :
      LET e == calls[r].ret[k].target
          high == IF e.confidence > 90 THEN << <<"High confidence detection">> >> ELSE <<>>
          inter == IF e.interactable THEN << <<"Element is interactable">> >> ELSE <<>>
          match == IF \E j \in 1..Len(ActiveKeywords) :
                        Includes(ToLower(e.label), ActiveKeywords[j])
                   THEN << <<"Matches goal: ", goals[currentGoal].description>> >>
                   ELSE <<>>
          triggered == high \o inter \o match
      IN calls[r].ret[k].reasoning =
           IF triggered = <<>> THEN <<"Standard interaction">> ELSE Join(triggered)

(***************************************************************************)
(* The planner called between goal runs whose actions succeed, by callers  *)
(* that keep the plans they were given.                                    *)
(***************************************************************************)
NextPure ==
  \/ \E goal \in GoalArgs : NoCallRunning /\ SetGoal(goal) /\ UNCHANGED hostVars
  \/ \E r \in Reqs, analysis \in Analyses :
       NoCallRunning /\ GenerateActionPlan(r, analysis) /\ UNCHANGED hostVars
  \/ \E r \in SeqReqs : NoCallRunning /\ ExecuteGoal(r) /\ UNCHANGED hostVars
  \/ \E r \in SeqReqs, an \in LinkAnalyses \cup OverlapAnalyses :
       GoalAnalyzed(r, an) /\ UNCHANGED hostVars
  \/ \E r \in SeqReqs : ActuationResolved(r) /\ UNCHANGED hostVars
  \/ \E r \in SeqReqs : Settled(r) /\ UNCHANGED hostVars
  \/ \E r \in Reqs : Complete(r) /\ UNCHANGED hostVars

SpecPure == Init /\ [][NextPure]_vars

GoalRequest(r, goal) ==
  /\ calls[r].pc = "idle"
  /\ Len(goals) < MaxGoals
  /\ goals' = Append(goals, NewGoal(goal))
  /\ currentGoal' = Len(goals) + 1
  /\ goalDispatched' = 0
  /\ calls' = [calls EXCEPT ![r] =
                 GoalLoopHead([IdleFrame EXCEPT !.op = "executeGoal",
                                                !.hist0 = Len(actionHistory),
                                                !.goal0 = Len(goals) + 1],
                              goals', currentGoal')]
  /\ UNCHANGED <<actionHistory, dispatched>>

NextGoalRequests ==
  \/ \E r \in Reqs, goal \in GoalArgs : GoalRequest(r, goal) /\ UNCHANGED hostVars
  \/ \E r \in Reqs, an \in Analyses : GoalAnalyzed(r, an) /\ UNCHANGED hostVars
  \/ \E r \in Reqs : AnalyzeThrows(r) /\ UNCHANGED hostVars
  \/ \E r \in Reqs : ActuationResolved(r) /\ UNCHANGED hostVars
  \/ \E r \in Reqs, err \in ActuationErrors : ActuationRaises(r, err) /\ UNCHANGED hostVars
  \/ \E r \in Reqs : Settled(r) /\ UNCHANGED hostVars
  \/ \E r \in Reqs : Complete(r) /\ UNCHANGED hostVars

SpecGoalRequests == Init /\ [][NextGoalRequests]_vars

\* C35: when goal requests overlap, the active goal's currentStep still
\* never exceeds its maxSteps, and the executeGoal calls in progress that
\* were started on the active goal have dispatched no more than maxSteps
\* actions between them.
C35_OverlapKeepsBudget ==
  currentGoal # 0 =>
    /\ goals[currentGoal].currentStep <= goals[currentGoal].maxSteps
    /\ (IF calls[1].op = "executeGoal" /\ calls[1].goal0 = currentGoal THEN calls[1].n ELSE 0)
         + (IF calls[2].op = "executeGoal" /\ calls[2].goal0 = currentGoal THEN calls[2].n ELSE 0)
       <= goals[currentGoal].maxSteps

\* the number of successful outcomes in a run's results
Successes(results) == Cardinality({ k \in 1..Len(results) : results[k].success })

\* C36: executeGoal() does not reset the step counter.  While a call of any
\* method is in progress or settled, the active goal's currentStep is what
\* it was at the call plus the successes the call has obtained as
\* executeGoal (none for another method), so only setGoal takes it back to
\* 0; and an executeGoal() call that found currentStep equal to maxSteps
\* has returned at once: no snapshot, no dispatch, nothing appended to the
\* history, zero steps and success = true.
C36_StepCounterOnlyAdvances ==
  \A r \in SeqReqs :
    (calls[r].op # "none" /\ currentGoal # 0) =>
      /\ calls[r].goal0 = currentGoal
      /\ goals[currentGoal].currentStep = calls[r].step0 + Successes(calls[r].results)
      /\ (calls[r].op = "executeGoal" /\ calls[r].step0 = goals[currentGoal].maxSteps) =>
           /\ calls[r].pc = "returned"
           /\ calls[r].shots = 0
           /\ calls[r].n = 0
           /\ Len(actionHistory) = calls[r].hist0
           /\ calls[r].ret.steps = <<>>
           /\ calls[r].ret.success

\* a second executeGoal() on the goal whose one step was used has returned
\* zero steps
C36_Witness ==
  /\ calls[1].op = "executeGoal"
  /\ calls[1].pc = "returned"
  /\ currentGoal # 0
  /\ goals[currentGoal].maxSteps = 1
  /\ calls[1].step0 = 1
  /\ goals[currentGoal].currentStep = 1
  /\ calls[1].ret.steps = <<>>
  /\ calls[1].ret.success
  /\ actionHistory # <<>>
  /\ Last(actionHistory).success

\* C37: every priority the planner produces is at least 50, in every plan
\* for every snapshot under the active goal and in every action that
\* executeGoal() dispatches, so the floor of 30 ends no run: an
\* executeGoal() call that has returned saw an empty plan, or its last
\* action failed, or the goal's step budget is used up.
C37_FloorNeverEndsRun ==
  /\ \A an \in Analyses :
       LET plan == generateActionPlan(an, GoalOpt(goals, currentGoal))
       IN \A k \in 1..Len(plan) : plan[k].priority >= 50
  /\ \A r \in GoalFrames :
       /\ \A k \in 1..Len(calls[r].results) :
            calls[r].results[k].success => calls[r].results[k].action.priority >= 50
       /\ calls[r].action # <<>> => calls[r].action[1].priority >= 50
       /\ calls[r].pc = "returned" =>
            \/ calls[r].shots >= 1 /\ calls[r].noActions
            \/ calls[r].results # <<>> /\ ~Last(calls[r].results).success
            \/ goals[currentGoal].currentStep >= goals[currentGoal].maxSteps

\* a run of two steps on the link, planned at priority 80 with no keyword
\* of the goal in its label, has returned with the budget used up
C37_Witness ==
  \E r \in GoalFrames :
    /\ calls[r].pc = "returned"
    /\ Len(calls[r].results) = 2
    /\ calls[r].results[1].success
    /\ calls[r].results[1].action.target = NextLink
    /\ calls[r].results[1].action.priority = 80
    /\ calls[r].results[2].success
    /\ goals[currentGoal].currentStep = goals[currentGoal].maxSteps

\* C38: a failed action does not stop autonomousExplore.  When the action
\* of a step has settled, failed or not, its outcome is the last entry of
\* the history and the call is at its waitTime delay, about to go on; and
\* a call that has returned made all maxActions steps, whatever their
\* outcomes, unless a snapshot gave an empty plan.
C38_ExploreGoesOnAfterFailure ==
  \A r \in ExploreFrames :
    /\ calls[r].pc = "wait" =>
         /\ Len(actionHistory) = calls[r].hist0 + calls[r].n
         /\ Last(actionHistory).action = calls[r].action[1]
    /\ (calls[r].n >= 1 /\ calls[r].pc \notin {"actuate", "settle"}) =>
         Len(actionHistory) = calls[r].hist0 + calls[r].n
    /\ calls[r].pc = "returned" =>
         \/ calls[r].shots >= 1 /\ calls[r].noActions
         \/ /\ calls[r].i = calls[r].maxActions
            /\ calls[r].n = calls[r].maxActions

\* an exploration of two steps has returned after both, the first of which
\* failed
C38_Witness ==
  \E r \in ExploreFrames :
    /\ calls[r].pc = "returned"
    /\ calls[r].maxActions = 2
    /\ calls[r].n = 2
    /\ calls[r].hist0 = 0
    /\ Len(actionHistory) = 2
    /\ ~actionHistory[1].success
    /\ actionHistory[2].success
    /\ Len(calls[r].ret) = 2

(***************************************************************************)
(* identifyAndClickIcon on surfaces that show several icons, asked for by  *)
(* names in another case than the labels and by a name no label holds.     *)
(***************************************************************************)
IconRequestNames == { <<"S","E","T","T","I","N","G","S">>, <<"m","e","n","u">>, <<"C","a","r","t">> }

IconAnalyses ==
  { Analysis(<<>>),
    Analysis(<<SubmitButton, LogoIcon>>),
    Analysis(<<LogoIcon, MenuSettingsIcon, SettingsIcon>>),
    Analysis(<<SettingsIcon, SubmitButton, MenuSettingsIcon>>) }

NextIcons ==
  \/ \E goal \in GoalArgs : Quiet /\ SetGoal(goal) /\ UNCHANGED hostVars
  \/ \E r \in SeqReqs, iconName \in IconRequestNames :
       Quiet /\ IdentifyAndClickIcon(r, iconName) /\ UNCHANGED hostVars
  \/ \E r \in SeqReqs, an \in IconAnalyses : ClickIconAnalyzed(r, an) /\ UNCHANGED hostVars
  \/ \E r \in SeqReqs : ActuationResolved(r) /\ UNCHANGED hostVars
  \/ \E r \in SeqReqs, err \in ActuationErrors : ActuationRaises(r, err) /\ UNCHANGED hostVars
  \/ \E r \in SeqReqs : Settled(r) /\ UNCHANGED hostVars
  \/ \E r \in SeqReqs : Complete(r) /\ UNCHANGED hostVars

SpecIcons == Init /\ [][NextIcons]_vars

\* C39: when identifyAndClickIcon(name) gets its snapshot and no icon's
\* lowercased label contains the lowercased name, it returns success =
\* false at once, with no dispatch and the history, the goals, the active
\* goal and its currentStep unchanged; when some icon matches, it dispatches
\* a click on the first match in snapshot order, and that is the only
\* action the call ever dispatches.
C39_ClickIconFirstMatchOrNothing ==
  [][/\ \A r \in SeqReqs, an \in IconAnalyses :
          ClickIconAnalyzed(r, an) =>
            LET icons == an.elements.icons
                M == { k \in 1..Len(icons) :
                         Includes(ToLower(icons[k].label), ToLower(calls[r].iconName)) }
            IN IF M = {}
               THEN /\ calls'[r].pc = "returned"
                    /\ calls'[r].ret.success = FALSE
                    /\ calls'[r].n = 0
                    /\ calls'[r].mouse = <<>>
                    /\ dispatched' = dispatched
                    /\ actionHistory' = actionHistory
                    /\ goals' = goals
                    /\ currentGoal' = currentGoal
               ELSE /\ calls'[r].pc = "actuate"
                    /\ calls'[r].n = 1
                    /\ dispatched' = dispatched + 1
                    /\ calls'[r].action =
                         <<[type |-> "click",
                            target |-> icons[CHOOSE k \in M : \A j \in M : k <= j]]>>
                    /\ Len(calls'[r].mouse) = 1
                    /\ calls'[r].mouse[1].method = "click"
     /\ \A r \in Reqs :
          calls'[r].op = "identifyAndClickIcon" =>
            /\ calls'[r].n <= 1
            /\ calls[r].n = 1 => dispatched' = dispatched]_vars

\* asked for 'SETTINGS' under a goal, on a surface whose icons are Logo,
\* Menu settings and Settings, the call has clicked Menu settings, the
\* only action dispatched so far, and returned
C39_Witness ==
  /\ calls[1].op = "identifyAndClickIcon"
  /\ calls[1].pc = "returned"
  /\ calls[1].iconName = <<"S","E","T","T","I","N","G","S">>
  /\ calls[1].action = <<[type |-> "click", target |-> MenuSettingsIcon]>>
  /\ calls[1].ret.success
  /\ calls[1].n = 1
  /\ dispatched = 1
  /\ Len(actionHistory) = 1
  /\ currentGoal # 0

(***************************************************************************)
(* Goal runs and explorations whose awaits all settle: every snapshot      *)
(* resolves or raises, every click resolves or raises, and the timers of   *)
(* the settle delay and of waitTime fire.                                  *)
(***************************************************************************)
RunAnalyses == { Analysis(<<>>), Analysis(<<NextLink>>), Analysis(<<NextLink, SubmitButton>>) }

SnapshotSettles ==
  \E r \in SeqReqs :
    \/ \E an \in RunAnalyses : GoalAnalyzed(r, an) /\ UNCHANGED hostVars
    \/ \E an \in RunAnalyses : ExploreAnalyzed(r, an) /\ UNCHANGED hostVars
    \/ AnalyzeThrows(r) /\ UNCHANGED hostVars

ActuationSettles ==
  \E r \in SeqReqs :
    \/ ActuationResolved(r) /\ UNCHANGED hostVars
    \/ \E err \in ActuationErrors : ActuationRaises(r, err) /\ UNCHANGED hostVars

TimerFires ==
  \E r \in SeqReqs :
    \/ Settled(r) /\ UNCHANGED hostVars
    \/ WaitDone(r) /\ UNCHANGED hostVars

NextRuns ==
  \/ \E goal \in GoalArgs : Quiet /\ SetGoal(goal) /\ UNCHANGED hostVars
  \/ \E r \in SeqReqs : Quiet /\ ExecuteGoal(r) /\ UNCHANGED hostVars
  \/ \E r \in SeqReqs, options \in ExploreArgs : Quiet /\ AutonomousExplore(r, options) /\ UNCHANGED hostVars
  \/ \E r \in SeqReqs, an \in RunAnalyses : GoalAnalyzed(r, an) /\ UNCHANGED hostVars
  \/ \E r \in SeqReqs, an \in RunAnalyses : ExploreAnalyzed(r, an) /\ UNCHANGED hostVars
  \/ \E r \in SeqReqs : AnalyzeThrows(r) /\ UNCHANGED hostVars
  \/ \E r \in SeqReqs : ActuationResolved(r) /\ UNCHANGED hostVars
  \/ \E r \in SeqReqs, err \in ActuationErrors : ActuationRaises(r, err) /\ UNCHANGED hostVars
  \/ \E r \in SeqReqs : Settled(r) /\ UNCHANGED hostVars
  \/ \E r \in SeqReqs : WaitDone(r) /\ UNCHANGED hostVars
  \/ \E r \in SeqReqs : Complete(r) /\ UNCHANGED hostVars

SpecRuns ==
  /\ Init
  /\ [][NextRuns]_vars
  /\ WF_vars(SnapshotSettles)
  /\ WF_vars(ActuationSettles)
  /\ WF_vars(TimerFires)

====
